---- MODULE Spec2Model ----
(***************************************************************************)
(* Model of the page-object layer of the Playwright test suite:            *)
(*   - PomManager (pages/PomManager.ts): lazy, cached page-object factory  *)
(*   - LoginPage / SecurePage / CheckboxesPage constructors                *)
(*   - CheckboxesPage operations over the checkboxes of a rendered page    *)
(*   - CommonActions (utils/CommonActions.ts): the action wrapper          *)
(*   - playwright.config.ts: the settings computed when the runner loads it *)
(* Objects live in a heap (a sequence); an object's identity is its index. *)
(***************************************************************************)
EXTENDS Integers, Sequences, FiniteSets, TLC

VARIABLES
    heap,       \* allocated objects, heap[id] is the object with identity id
    mgr,        \* the PomManager instances created so far: id -> fields
    ret,        \* what the last PomManager getter call returned
    firstRet,   \* history: the object each getter returned on its first call
    ctorRuns,   \* history: how often each page-object constructor ran, per manager
    closed,     \* the browser pages (handles the runner supplied) that were closed
    dom,        \* the rendered checkboxes page: its input elements in DOM order
    task,       \* the CheckboxesPage method in progress (its locals and position)
    done,       \* outcome of the last completed CheckboxesPage method
    prev,       \* history: the method completed before `done`, and the DOM before it
    calls,      \* history: primitive check/uncheck invocations of the method in progress
    script,     \* the calls a scripted test still has to make (<<>>: the test is free)
    view,       \* the rendered login / secure page: its elements by selector
    running,    \* the CommonActions / LoginPage / SecurePage method in progress
    returned,   \* outcome of the last such method that completed
    events,     \* history: wrapper calls and primitive invocations of that method
    cpus,       \* os.cpus().length of the machine the runner starts on
    env,        \* process.env['CI'] of the runner: undefined or a string
    config,     \* the configuration object playwright.config.ts exports
    flows,      \* toggleCheckbox calls a test started without awaiting them
    written,    \* history: the last check / uncheck such a call invoked
    site,       \* what the scraped site answers to each step of a script
    jsRun,      \* the run of the JavaScript scraping script
    tsRun       \* the run of the TypeScript scraping script

vars == <<heap, mgr, ret, firstRet, ctorRuns, closed, dom, task, done, prev, calls,
          script, view, running, returned, events, cpus, env, config,
          flows, written, site, jsRun, tsRun>>

pomVars == <<heap, mgr, ret, firstRet, ctorRuns, closed>>
cbVars  == <<dom, task, done, prev, calls, script>>
actVars == <<view, running, returned, events>>
cfgVars == <<cpus, env, config>>
ovVars  == <<flows, written>>
scrVars == <<site, jsRun, tsRun>>
toolVars == <<cfgVars, ovVars, scrVars>>

-----------------------------------------------------------------------------
(* Bounds *)

\* number of browser page handles the test runner hands out
MaxPages == 2

\* the PomManager instances: one per test (test.beforeEach of two tests)
MgrIds == {"testA", "testB"}
Pages  == 1..MaxPages

Null == 0

Kinds == {"LoginPage", "SecurePage", "CheckboxesPage"}

-----------------------------------------------------------------------------
(* Locators and selectors *)

\* page.locator(selector): a recipe, bound to a page, not yet to an element.
\* `chain` is the sequence of selectors (locator.locator(...) appends one),
\* `nth` is the 1-based position picked by locator.all() (0: not picked).
PageLocator(page, selector) ==
    [page |-> page, chain |-> <<selector>>, nth |-> 0]

SubLocator(loc, selector) ==
    [page |-> loc.page, chain |-> Append(loc.chain, selector), nth |-> 0]

SelContainer == [css |-> "#checkboxes", n |-> 0]
SelCheckbox  == [css |-> "input[type=checkbox]", n |-> 0]
\* a selector that designates the first input whatever the index
SelNthOfTypeFirst(index) == [css |-> "input[type=checkbox]:nth-of-type", n |-> 1]
SelNthOfType(index) == [css |-> "input[type=checkbox]:nth-of-type", n |-> index]
SelCss(s) == [css |-> s, n |-> 0]

-----------------------------------------------------------------------------
(* Constructors.  Each returns the objects it allocates, the page object    *)
(* first (allocated by `new`), then the CommonActions its constructor makes. *)

\* a wrapper bound to one fixed page instead of the page it is given
NewCommonActionsFixedPage(page) == [kind |-> "CommonActions", page |-> 1]
NewCommonActions(page) == [kind |-> "CommonActions", page |-> page]

NewLoginPage(page, self) ==
    << [kind |-> "LoginPage", page |-> page, actions |-> self + 1,
        locators |-> [usernameInput |-> PageLocator(page, SelCss("#username")),
                      passwordInput |-> PageLocator(page, SelCss("#password")),
                      loginButton   |-> PageLocator(page, SelCss("button[type=submit]")),
                      errorMessage  |-> PageLocator(page, SelCss("#flash"))]],
       NewCommonActions(page) >>

NewSecurePage(page, self) ==
    << [kind |-> "SecurePage", page |-> page, actions |-> self + 1,
        locators |-> [flashMessage |-> SelCss("#flash")]],
       NewCommonActions(page) >>

NewCheckboxesPage(page, self) ==
    << [kind |-> "CheckboxesPage", page |-> page, actions |-> self + 1,
        locators |-> [checkboxesContainer |-> PageLocator(page, SelContainer),
                      checkboxes |-> SubLocator(PageLocator(page, SelContainer),
                                                SelCheckbox)]],
       NewCommonActions(page) >>

-----------------------------------------------------------------------------
(* PomManager *)

\* new PomManager(page): stores the page, all three cache slots null
NewPomManagerFields(page) ==
    [page |-> page, _loginPage |-> Null, _securePage |-> Null,
     _checkboxesPage |-> Null]

NoRet == [mgr |-> "none", kind |-> "none", obj |-> Null, fresh |-> FALSE]

NoHistory == [m \in MgrIds |-> [k \in Kinds |-> 0]]

NewPomManager(m, page) ==
    /\ m \notin DOMAIN mgr
    /\ mgr' = [x \in DOMAIN mgr \cup {m} |->
                 IF x = m THEN NewPomManagerFields(page) ELSE mgr[x]]
    /\ UNCHANGED <<heap, ret, firstRet, ctorRuns>>
    /\ UNCHANGED <<closed, cbVars, actVars, toolVars>>

\* `if (!this._xPage)`: the slot holds no object yet
SlotEmptyAlways(slot) == TRUE
SlotEmpty(slot) == slot = Null

\* bookkeeping shared by the three getters: record what the call returned
Returned(m, kind, obj, constructed) ==
    /\ ret' = [mgr |-> m, kind |-> kind, obj |-> obj, fresh |-> constructed]
    /\ firstRet' = IF firstRet[m][kind] = Null
                   THEN [firstRet EXCEPT ![m][kind] = obj]
                   ELSE firstRet
    /\ ctorRuns' = IF constructed
                   THEN [ctorRuns EXCEPT ![m][kind] = @ + 1]
                   ELSE ctorRuns

\* the cache slot held once for all managers (a static field)
getLoginPageStatic(m) ==
    /\ m \in DOMAIN mgr
    /\ IF SlotEmpty(mgr[m]._loginPage)
       THEN /\ heap' = heap \o NewLoginPage(mgr[m].page, Len(heap) + 1)
            /\ mgr' = [x \in DOMAIN mgr |->
                         [mgr[x] EXCEPT !._loginPage = Len(heap) + 1]]
            /\ Returned(m, "LoginPage", Len(heap) + 1, TRUE)
       ELSE /\ UNCHANGED <<heap, mgr>>
            /\ Returned(m, "LoginPage", mgr[m]._loginPage, FALSE)
    /\ UNCHANGED <<closed, cbVars, actVars, toolVars>>

getLoginPage(m) ==
    /\ m \in DOMAIN mgr
    /\ IF SlotEmpty(mgr[m]._loginPage)
       THEN /\ heap' = heap \o NewLoginPage(mgr[m].page, Len(heap) + 1)
            /\ mgr' = [mgr EXCEPT ![m]._loginPage = Len(heap) + 1]
            /\ Returned(m, "LoginPage", Len(heap) + 1, TRUE)
       ELSE /\ UNCHANGED <<heap, mgr>>
            /\ Returned(m, "LoginPage", mgr[m]._loginPage, FALSE)
    /\ UNCHANGED <<closed, cbVars, actVars, toolVars>>

\* copy-paste slip: tests the login slot instead of the secure slot
getSecurePageWrongSlot(m) ==
    /\ m \in DOMAIN mgr
    /\ IF SlotEmpty(mgr[m]._loginPage)
       THEN /\ heap' = heap \o NewSecurePage(mgr[m].page, Len(heap) + 1)
            /\ mgr' = [mgr EXCEPT ![m]._securePage = Len(heap) + 1]
            /\ Returned(m, "SecurePage", Len(heap) + 1, TRUE)
       ELSE /\ UNCHANGED <<heap, mgr>>
            /\ Returned(m, "SecurePage", mgr[m]._securePage, FALSE)
    /\ UNCHANGED <<closed, cbVars, actVars, toolVars>>

\* a getter that points the cached object's locator somewhere else
getSecurePageReassigns(m) ==
    /\ m \in DOMAIN mgr
    /\ IF SlotEmpty(mgr[m]._securePage)
       THEN /\ heap' = heap \o NewSecurePage(mgr[m].page, Len(heap) + 1)
            /\ mgr' = [mgr EXCEPT ![m]._securePage = Len(heap) + 1]
            /\ Returned(m, "SecurePage", Len(heap) + 1, TRUE)
       ELSE /\ heap' = [heap EXCEPT ![mgr[m]._securePage].locators.flashMessage =
                                        SelCss("#flash-messages")]
            /\ UNCHANGED mgr
            /\ Returned(m, "SecurePage", mgr[m]._securePage, FALSE)
    /\ UNCHANGED <<closed, cbVars, actVars, toolVars>>

getSecurePage(m) ==
    /\ m \in DOMAIN mgr
    /\ IF SlotEmpty(mgr[m]._securePage)
       THEN /\ heap' = heap \o NewSecurePage(mgr[m].page, Len(heap) + 1)
            /\ mgr' = [mgr EXCEPT ![m]._securePage = Len(heap) + 1]
            /\ Returned(m, "SecurePage", Len(heap) + 1, TRUE)
       ELSE /\ UNCHANGED <<heap, mgr>>
            /\ Returned(m, "SecurePage", mgr[m]._securePage, FALSE)
    /\ UNCHANGED <<closed, cbVars, actVars, toolVars>>

\* no cache check: a new CheckboxesPage on every call
getCheckboxesPageUncached(m) ==
    /\ m \in DOMAIN mgr
    /\ heap' = heap \o NewCheckboxesPage(mgr[m].page, Len(heap) + 1)
    /\ mgr' = [mgr EXCEPT ![m]._checkboxesPage = Len(heap) + 1]
    /\ Returned(m, "CheckboxesPage", Len(heap) + 1, TRUE)
    /\ UNCHANGED <<closed, cbVars, actVars, toolVars>>

getCheckboxesPage(m) ==
    /\ m \in DOMAIN mgr
    /\ IF SlotEmpty(mgr[m]._checkboxesPage)
       THEN /\ heap' = heap \o NewCheckboxesPage(mgr[m].page, Len(heap) + 1)
            /\ mgr' = [mgr EXCEPT ![m]._checkboxesPage = Len(heap) + 1]
            /\ Returned(m, "CheckboxesPage", Len(heap) + 1, TRUE)
       ELSE /\ UNCHANGED <<heap, mgr>>
            /\ Returned(m, "CheckboxesPage", mgr[m]._checkboxesPage, FALSE)
    /\ UNCHANGED <<closed, cbVars, actVars, toolVars>>

-----------------------------------------------------------------------------
(* The rendered page.  `dom` lists the <input> elements of the page in DOM  *)
(* order; each is a child of the form #checkboxes or of another form that   *)
(* follows it.  Only the checked flag of a checkbox ever changes.  The form *)
(* #checkboxes itself is on every page, with or without children: it is     *)
(* element 0, the inputs are elements 1..Len(dom).                          *)

\* longest page (number of <input> elements) considered
MaxElems == 3
\* largest checkbox index a test passes
MaxIndex == 2
\* longest expectedStates array a test passes
MaxExpected == 2

Parents == {"checkboxes", "other"}

Elems ==
    [parent : Parents, type : {"checkbox"}, checked : BOOLEAN] \cup
    [parent : Parents, type : {"text"}, checked : {FALSE}]

\* the children of #checkboxes come first, the other form's children after
WellFormed(d) ==
    \A i, j \in 1..Len(d) :
        i < j /\ d[j].parent = "checkboxes" => d[i].parent = "checkboxes"

SeqsUpTo(S, n) == UNION {[1..k -> S] : k \in 0..n}

Doms == {d \in SeqsUpTo(Elems, MaxElems) : WellFormed(d)}

\* the form #checkboxes
Form == 0

\* 1-based position of element i among its siblings of the same tag (input)
NthOfType(d, i) ==
    Cardinality({j \in 1..i : d[j].parent = d[i].parent})

\* does element i of d match the (last) selector of a chain
Matches(sel, d, i) ==
    CASE sel = SelContainer -> i = Form
      [] sel = SelCheckbox -> i # Form /\ d[i].type = "checkbox"
      [] sel.css = "input[type=checkbox]:nth-of-type" ->
            i # Form /\ d[i].type = "checkbox" /\ NthOfType(d, i) = sel.n
      [] OTHER -> FALSE

\* is element i inside the scope the chain's leading selectors set up:
\* the descendants of the form are its inputs, not the form itself, and an
\* input has no descendants, so a chain of three selectors or more, whose
\* second selector would have to designate an element inside the form that
\* has elements inside it, designates nothing
InScope(chain, d, i) ==
    CASE Len(chain) = 1 -> TRUE
      [] Len(chain) = 2 ->
            chain[1] = SelContainer /\ i # Form /\ d[i].parent = "checkboxes"
      [] OTHER -> FALSE

RECURSIVE Ascending(_)
\* the members of a finite set of numbers, in ascending order
Ascending(S) ==
    IF S = {} THEN <<>>
    ELSE LET m == CHOOSE x \in S : \A y \in S : x <= y
         IN <<m>> \o Ascending(S \ {m})

\* the elements a locator designates now, in DOM order
Resolve(loc, d) ==
    LET all == Ascending({i \in Form..Len(d) :
                   /\ InScope(loc.chain, d, i)
                   /\ Matches(loc.chain[Len(loc.chain)], d, i)})
    IN IF loc.nth = 0 THEN all
       ELSE IF loc.nth <= Len(all) THEN <<all[loc.nth]>> ELSE <<>>

\* strict resolution to one element, as every single-element primitive does:
\* no element within the timeout is a TimeoutError, several are a strict
\* mode violation (`el` is then past the page: no element)
Target(loc, d) ==
    LET els == Resolve(loc, d)
    IN CASE Len(els) = 1 -> [status |-> "ok", el |-> els[1]]
         [] Len(els) = 0 -> [status |-> "TimeoutError", el |-> Len(d) + 1]
         [] OTHER        -> [status |-> "StrictModeViolation", el |-> Len(d) + 1]

\* locator.all(): one nth() locator per element matched now
Locator_all(loc, d) ==
    [k \in 1..Len(Resolve(loc, d)) |-> [loc EXCEPT !.nth = k]]

\* locator.count()
Locator_count(loc, d) == Len(Resolve(loc, d))

\* a check / uncheck that reaches every checkbox of the page
SetCheckedEverywhere(d, el, value) ==
    [i \in 1..Len(d) |-> IF d[i].type = "checkbox"
                         THEN [d[i] EXCEPT !.checked = value] ELSE d[i]]

\* locator.check() / locator.uncheck() on element el: the page after it
SetChecked(d, el, value) == [d EXCEPT ![el].checked = value]

-----------------------------------------------------------------------------
(* CommonActions *)

IsString(selectorOrLocator) == "css" \in DOMAIN selectorOrLocator

\* a resolution that always asks the page for a locator, as the wrapper
\* did before it accepted locators
_getLocatorPageOnly(actions, selectorOrLocator) ==
    PageLocator(heap[actions].page,
                IF IsString(selectorOrLocator) THEN selectorOrLocator
                ELSE selectorOrLocator.chain[Len(selectorOrLocator.chain)])

\* _getLocator: a string becomes a locator on the wrapper's page
_getLocator(actions, selectorOrLocator) ==
    IF IsString(selectorOrLocator)
    THEN PageLocator(heap[actions].page, selectorOrLocator)
    ELSE selectorOrLocator

-----------------------------------------------------------------------------
(* CheckboxesPage.  A method runs as a task: `pc` is the await it is        *)
(* suspended at; a test awaits each call, so one task runs at a time.       *)

\* the page object the checkbox tests use
cbPage == mgr["testA"]._checkboxesPage

Ops == {"checkCheckbox", "uncheckCheckbox", "checkAll", "uncheckAll",
        "getCheckboxStates", "validateCheckboxState",
        "validateAllCheckboxStates", "toggleCheckbox", "getCheckboxCount"}

NoTask == [op |-> "none", pc |-> "none", index |-> 0, expectedState |-> FALSE,
           expectedStates |-> <<>>, selector |-> SelCss(""),
           locs |-> <<>>, k |-> 0, isCurrentlyChecked |-> FALSE,
           states |-> <<>>, pending |-> {}, pre |-> <<>>]

NoDone == [op |-> "none", index |-> 0, expectedState |-> FALSE,
           expectedStates |-> <<>>, status |-> "none", states |-> <<>>,
           count |-> 0, pre |-> <<>>]

Idle == task.op = "none"

NewTask(op, index, expectedState, expectedStates, pc, sel) ==
    [op |-> op, pc |-> pc, index |-> index, expectedState |-> expectedState,
     expectedStates |-> expectedStates, selector |-> sel,
     locs |-> <<>>, k |-> 0, isCurrentlyChecked |-> FALSE,
     states |-> <<>>, pending |-> {}, pre |-> dom]

\* what is kept of a completed call once the next one starts
Summary(d) == [op |-> d.op, index |-> d.index, status |-> d.status, pre |-> d.pre]

NoPrev == [op |-> "none", index |-> 0, status |-> "none", pre |-> <<>>]

\* a test calls a method: everything up to the method's first await; a
\* scripted test makes the calls of its script, in their order, and ends
\* at the first call that throws
Call(op, index, expectedState, expectedStates, pc) ==
    /\ Idle
    /\ task' = NewTask(op, index, expectedState, expectedStates, pc,
                       SelNthOfType(index))
    /\ prev' = IF done.op = "none" THEN NoPrev ELSE Summary(done)
    /\ done' = NoDone
    /\ calls' = <<>>
    /\ IF script = <<>>
         THEN UNCHANGED script
         ELSE /\ done.op = "none" \/ done.status = "ok"
              /\ Head(script) = [op |-> op, index |-> index,
                                 expectedStates |-> expectedStates]
              /\ script' = Tail(script)
    /\ UNCHANGED dom
    /\ UNCHANGED <<pomVars, actVars, toolVars>>

\* the method returns or throws: the awaiting test resumes
Finish(status, states, count) ==
    /\ done' = [op |-> task.op, index |-> task.index,
                expectedState |-> task.expectedState,
                expectedStates |-> task.expectedStates,
                status |-> status, states |-> states, count |-> count,
                pre |-> task.pre]
    /\ task' = NoTask
    /\ UNCHANGED prev

\* the primitive check / uncheck is invoked on element el
Invoked(prim, el) == calls' = Append(calls, [prim |-> prim, el |-> el,
                                             was |-> dom[el].checked])

callCheckCheckbox(index) == Call("checkCheckbox", index, FALSE, <<>>, "check")
callUncheckCheckbox(index) == Call("uncheckCheckbox", index, FALSE, <<>>, "uncheck")
callToggleCheckbox(index) == Call("toggleCheckbox", index, FALSE, <<>>, "waitFor")
callValidateCheckboxState(index, expectedState) ==
    Call("validateCheckboxState", index, expectedState, <<>>, "waitFor")
callCheckAll == Call("checkAll", 0, FALSE, <<>>, "all")
callUncheckAll == Call("uncheckAll", 0, FALSE, <<>>, "all")
callGetCheckboxStates == Call("getCheckboxStates", 0, FALSE, <<>>, "all")
callValidateAllCheckboxStates(expectedStates) ==
    Call("validateAllCheckboxStates", 0, FALSE, expectedStates, "all")
callGetCheckboxCount == Call("getCheckboxCount", 0, FALSE, <<>>, "count")
\* checkboxesPage.actions.navigate('/checkboxes'), as the tests call it.
\* The test leaves the page: what it did there is not kept (`prev` and
\* `done` are empty again, and the call does not record the page it left)
callActionsNavigate ==
    /\ Idle
    /\ script = <<>>
    /\ task' = [NoTask EXCEPT !.op = "navigate", !.pc = "goto"]
    /\ prev' = NoPrev
    /\ done' = NoDone
    /\ calls' = <<>>
    /\ UNCHANGED <<dom, script>>
    /\ UNCHANGED <<pomVars, actVars, toolVars>>

\* the wrapper and the locators of the page object in use
cbActions == heap[cbPage].actions
cbCheckboxes == heap[cbPage].locators.checkboxes

\* the outcome of locator.check() / uncheck() / isChecked() on the element
\* a resolution designates: an element that is no checkbox has no checked
\* state, and the primitive throws ("Not a checkbox or radio button")
CheckedState(t, d) ==
    IF t.status # "ok" THEN t.status
    ELSE IF t.el # Form /\ d[t.el].type = "checkbox" THEN "ok" ELSE "Error"

\* CommonActions.check / uncheck: resolve, then the primitive on the one
\* element designated; the result is the outcome and the page after it
CommonActions_check(actions, selectorOrLocator, d) ==
    LET t == Target(_getLocator(actions, selectorOrLocator), d)
        status == CheckedState(t, d)
    IN [status |-> status, el |-> t.el,
        dom |-> IF status = "ok" THEN SetChecked(d, t.el, TRUE) ELSE d]

\* uncheck written as a copy of check
CommonActions_uncheckAsCheck(actions, selectorOrLocator, d) ==
    LET t == Target(_getLocator(actions, selectorOrLocator), d)
        status == CheckedState(t, d)
    IN [status |-> status, el |-> t.el,
        dom |-> IF status = "ok" THEN SetChecked(d, t.el, TRUE) ELSE d]

CommonActions_uncheck(actions, selectorOrLocator, d) ==
    LET t == Target(_getLocator(actions, selectorOrLocator), d)
        status == CheckedState(t, d)
    IN [status |-> status, el |-> t.el,
        dom |-> IF status = "ok" THEN SetChecked(d, t.el, FALSE) ELSE d]

\* what the site does with a request for the page: it answers with a page,
\* or it does not answer
DomAnswers == {[answered |-> TRUE, page |-> d] : d \in Doms}
              \cup {[answered |-> FALSE, page |-> <<>>]}

\* CommonActions.navigate: page.goto(url, {waitUntil, timeout}).  The page
\* the site answers with replaces the page shown; without an answer goto
\* rejects when its timeout has run out
CommonActions_navigate(d, answer) ==
    IF answer.answered THEN [status |-> "ok", dom |-> answer.page]
    ELSE [status |-> "TimeoutError", dom |-> d]

\* CommonActions.count
CommonActions_count(actions, selectorOrLocator, d) ==
    Locator_count(_getLocator(actions, selectorOrLocator), d)

\* expect(actual).toEqual(expected) on two arrays of booleans
\* only the positions of the expected array are compared
ToEqualExpectedOnly(actual, expected) ==
    \A i \in 1..Len(expected) : i <= Len(actual) /\ actual[i] = expected[i]
ToEqual(actual, expected) ==
    /\ Len(actual) = Len(expected)
    /\ \A i \in 1..Len(actual) : actual[i] = expected[i]

\* expect(actual).toBe(expected) on two booleans
ToBe(actual, expected) == actual = expected

\* checkCheckbox, and the else branch of toggleCheckbox:
\* await this.actions.check(selector)
StepCheck ==
    /\ task.op \in {"checkCheckbox", "toggleCheckbox"}
    /\ task.pc = "check"
    /\ LET r == CommonActions_check(cbActions, task.selector, dom)
       IN /\ dom' = r.dom
          /\ IF r.status = "ok" THEN Invoked("check", r.el) ELSE UNCHANGED calls
          /\ Finish(r.status, <<>>, 0)
    /\ UNCHANGED <<pomVars, script, actVars, toolVars>>

\* uncheckCheckbox, and the then branch of toggleCheckbox:
\* await this.actions.uncheck(selector)
StepUncheck ==
    /\ task.op \in {"uncheckCheckbox", "toggleCheckbox"}
    /\ task.pc = "uncheck"
    /\ LET r == CommonActions_uncheck(cbActions, task.selector, dom)
       IN /\ dom' = r.dom
          /\ IF r.status = "ok" THEN Invoked("uncheck", r.el) ELSE UNCHANGED calls
          /\ Finish(r.status, <<>>, 0)
    /\ UNCHANGED <<pomVars, script, actVars, toolVars>>

\* CommonActions.isChecked, first await: locator.waitFor({state: 'attached'})
StepWaitFor ==
    /\ task.op \in {"toggleCheckbox", "validateCheckboxState"}
    /\ task.pc = "waitFor"
    /\ LET t == Target(_getLocator(cbActions, task.selector), dom)
       IN IF t.status = "ok"
          THEN /\ task' = [task EXCEPT !.pc = "isChecked"]
               /\ UNCHANGED <<done, prev>>
          ELSE Finish(t.status, <<>>, 0)
    /\ UNCHANGED <<dom, calls>>
    /\ UNCHANGED <<pomVars, script, actVars, toolVars>>

\* the branch toggleCheckbox takes on the state it read
\* the state read is ignored
ToggleBranchAlwaysCheck(isCurrentlyChecked) == "check"
\* the two branches swapped
ToggleBranchSwapped(isCurrentlyChecked) ==
    IF isCurrentlyChecked THEN "check" ELSE "uncheck"
ToggleBranch(isCurrentlyChecked) ==
    IF isCurrentlyChecked THEN "uncheck" ELSE "check"

\* CommonActions.isChecked, second await: locator.isChecked(); then the
\* caller goes on with the value: toggleCheckbox branches on it,
\* validateCheckboxState compares it with the expected state
StepIsChecked ==
    /\ task.op \in {"toggleCheckbox", "validateCheckboxState"}
    /\ task.pc = "isChecked"
    /\ LET t == Target(_getLocator(cbActions, task.selector), dom)
           status == CheckedState(t, dom)
       IN IF status # "ok"
          THEN Finish(status, <<>>, 0)
          ELSE IF task.op = "toggleCheckbox"
               THEN /\ task' = [task EXCEPT
                                  !.isCurrentlyChecked = dom[t.el].checked,
                                  !.pc = ToggleBranch(dom[t.el].checked)]
                    /\ UNCHANGED <<done, prev>>
               ELSE Finish(IF ToBe(dom[t.el].checked, task.expectedState)
                           THEN "ok" ELSE "AssertionError", <<>>, 0)
    /\ UNCHANGED <<dom, calls>>
    /\ UNCHANGED <<pomVars, script, actVars, toolVars>>

\* await this.checkboxes.all(), in checkAll, uncheckAll, getCheckboxStates
\* (and validateAllCheckboxStates, which calls getCheckboxStates)
StepAll ==
    /\ task.pc = "all"
    /\ LET locs == Locator_all(cbCheckboxes, dom)
       IN IF task.op \in {"checkAll", "uncheckAll"}
          THEN IF Len(locs) = 0
               THEN Finish("ok", <<>>, 0)
               ELSE /\ task' = [task EXCEPT !.locs = locs, !.k = 1,
                                            !.pc = "loopIsChecked"]
                    /\ UNCHANGED <<done, prev>>
          ELSE IF Len(locs) = 0
               THEN Finish(IF task.op = "getCheckboxStates"
                              \/ ToEqual(<<>>, task.expectedStates)
                           THEN "ok" ELSE "AssertionError", <<>>, 0)
               ELSE /\ task' = [task EXCEPT !.locs = locs,
                                   !.states = [i \in 1..Len(locs) |-> FALSE],
                                   !.pending = 1..Len(locs),
                                   !.pc = "reads"]
                    /\ UNCHANGED <<done, prev>>
    /\ UNCHANGED <<dom, calls>>
    /\ UNCHANGED <<pomVars, script, actVars, toolVars>>

\* does the loop of checkAll / uncheckAll act on a checkbox found in this state
\* the negation forgotten
NeedsCheckInverted(isChecked) == isChecked
NeedsCheck(isChecked) == ~isChecked
\* the condition of checkAll copied into uncheckAll
NeedsUncheckInverted(isChecked) == ~isChecked
NeedsUncheck(isChecked) == isChecked

\* the loop goes on with the next checkbox, or the method returns
LoopAdvance ==
    IF task.k < Len(task.locs)
    THEN /\ task' = [task EXCEPT !.k = task.k + 1, !.pc = "loopIsChecked"]
         /\ UNCHANGED <<done, prev>>
    ELSE Finish("ok", <<>>, 0)

\* loop of checkAll / uncheckAll: await checkbox.isChecked()
StepLoopIsChecked ==
    /\ task.op \in {"checkAll", "uncheckAll"}
    /\ task.pc = "loopIsChecked"
    /\ LET t == Target(task.locs[task.k], dom)
           status == CheckedState(t, dom)
       IN IF status # "ok"
          THEN Finish(status, <<>>, 0)
          ELSE IF task.op = "checkAll" /\ NeedsCheck(dom[t.el].checked)
               THEN /\ task' = [task EXCEPT !.pc = "loopCheck"]
                    /\ UNCHANGED <<done, prev>>
               ELSE IF task.op = "uncheckAll" /\ NeedsUncheck(dom[t.el].checked)
                    THEN /\ task' = [task EXCEPT !.pc = "loopUncheck"]
                         /\ UNCHANGED <<done, prev>>
                    ELSE LoopAdvance
    /\ UNCHANGED <<dom, calls>>
    /\ UNCHANGED <<pomVars, script, actVars, toolVars>>

\* loop of checkAll: await this.actions.check(checkbox)
StepLoopCheck ==
    /\ task.op = "checkAll"
    /\ task.pc = "loopCheck"
    /\ LET r == CommonActions_check(cbActions, task.locs[task.k], dom)
       IN /\ dom' = r.dom
          /\ IF r.status = "ok"
             THEN Invoked("check", r.el) /\ LoopAdvance
             ELSE UNCHANGED calls /\ Finish(r.status, <<>>, 0)
    /\ UNCHANGED <<pomVars, script, actVars, toolVars>>

\* loop of uncheckAll: await this.actions.uncheck(checkbox)
StepLoopUncheck ==
    /\ task.op = "uncheckAll"
    /\ task.pc = "loopUncheck"
    /\ LET r == CommonActions_uncheck(cbActions, task.locs[task.k], dom)
       IN /\ dom' = r.dom
          /\ IF r.status = "ok"
             THEN Invoked("uncheck", r.el) /\ LoopAdvance
             ELSE UNCHANGED calls /\ Finish(r.status, <<>>, 0)
    /\ UNCHANGED <<pomVars, script, actVars, toolVars>>

\* Promise.all: the value of the i-th promise goes to position i of the array
\* the values collected in the order in which the reads complete
PutReadInArrivalOrder(states, pending, i, value) ==
    [states EXCEPT ![Len(states) - Cardinality(pending) + 1] = value]
PutRead(states, pending, i, value) == [states EXCEPT ![i] = value]

\* getCheckboxStates: Promise.all over checkbox.isChecked() of every locator.
\* The reads were all started; read i completes now (in any order) and puts
\* its value at position i.  With the last one the array is returned, and
\* validateAllCheckboxStates compares it with the expected one.
StepRead(i) ==
    /\ task.op \in {"getCheckboxStates", "validateAllCheckboxStates"}
    /\ task.pc = "reads"
    /\ i \in task.pending
    /\ LET t == Target(task.locs[i], dom)
           status == CheckedState(t, dom)
           states == PutRead(task.states, task.pending, i, dom[t.el].checked)
       IN IF status # "ok"
          THEN Finish(status, <<>>, 0)
          ELSE IF task.pending # {i}
               THEN /\ task' = [task EXCEPT !.states = states,
                                            !.pending = task.pending \ {i}]
                    /\ UNCHANGED <<done, prev>>
               ELSE Finish(IF task.op = "getCheckboxStates"
                              \/ ToEqual(states, task.expectedStates)
                           THEN "ok" ELSE "AssertionError", states, 0)
    /\ UNCHANGED <<dom, calls>>
    /\ UNCHANGED <<pomVars, script, actVars, toolVars>>

\* navigate: await this.page.goto(url, { waitUntil, timeout })
StepGoto ==
    /\ task.op = "navigate"
    /\ task.pc = "goto"
    /\ \E answer \in DomAnswers :
          LET r == CommonActions_navigate(dom, answer)
          IN /\ dom' = r.dom
             /\ Finish(r.status, <<>>, 0)
    /\ UNCHANGED calls
    /\ UNCHANGED <<pomVars, script, actVars, toolVars>>

\* getCheckboxCount: return this.actions.count('input[type="checkbox"]')
StepCount ==
    /\ task.op = "getCheckboxCount"
    /\ task.pc = "count"
    /\ Finish("ok", <<>>, CommonActions_count(cbActions, SelCheckbox, dom))
    /\ UNCHANGED <<dom, calls>>
    /\ UNCHANGED <<pomVars, script, actVars, toolVars>>

-----------------------------------------------------------------------------
(* JavaScript values.  A string is the sequence of its characters; null and *)
(* undefined are the two values below, which are no strings.                *)

\* longest text an element or an argument holds
MaxText == 2

Chars == {" ", "a"}
Texts == SeqsUpTo(Chars, MaxText)

NullText  == <<"null">>
Undefined == <<"undefined">>

\* String.prototype.trim: leading and trailing white space removed
RECURSIVE TrimStart(_)
TrimStart(t) ==
    IF t # <<>> /\ Head(t) = " " THEN TrimStart(Tail(t)) ELSE t

RECURSIVE TrimEnd(_)
TrimEnd(t) ==
    IF t # <<>> /\ t[Len(t)] = " " THEN TrimEnd(SubSeq(t, 1, Len(t) - 1)) ELSE t

Trim(t) == TrimEnd(TrimStart(t))

\* text?.trim()
OptionalTrim(text) == IF text = NullText THEN Undefined ELSE Trim(text)

\* text ?? fallback
Coalesce(value, fallback) ==
    IF value = NullText \/ value = Undefined THEN fallback ELSE value

\* String.prototype.includes
Includes(actual, expected) ==
    \E i \in 0..(Len(actual) - Len(expected)) :
        SubSeq(actual, i + 1, i + Len(expected)) = expected

\* expect(actual).toContain(expected): throws unless actual is a string
\* that contains expected
ToContain(actual, expected) ==
    IF actual = Undefined \/ actual = NullText THEN "AssertionError"
    ELSE IF Includes(actual, expected) THEN "ok"
    ELSE "AssertionError"

-----------------------------------------------------------------------------
(* The rendered login / secure page.  It has at most one element for each   *)
(* selector the page objects use, and at most one login form, which holds   *)
(* the two fields and the button; the flash message and the checkbox lie    *)
(* outside the form.  An element is absent, attached but hidden, or         *)
(* visible.                                                                 *)

SelUsername == SelCss("#username")
SelPassword == SelCss("#password")
SelSubmit   == SelCss("button[type=submit]")
SelFlash    == SelCss("#flash")
SelAgree    == SelCss("#agree-checkbox")
SelForm     == SelCss("#login")

ViewSelectors == {SelUsername, SelPassword, SelSubmit, SelFlash, SelAgree,
                  SelForm}
FormChildren  == {SelUsername, SelPassword, SelSubmit}

\* what kind of element a selector of the page objects designates: the two
\* fields are <input> elements holding text, #agree-checkbox is an
\* <input type="checkbox">, the submit button a <button>, the flash a <div>,
\* #login the <form>
Tag(el) ==
    CASE el \in {SelUsername, SelPassword} -> "text"
      [] el = SelAgree  -> "checkbox"
      [] el = SelSubmit -> "button"
      [] el = SelFlash  -> "div"
      [] el = SelForm   -> "form"

Absent == [state |-> "absent", enabled |-> FALSE, text |-> <<>>,
           checked |-> FALSE, clicked |-> FALSE]
Shown(state, enabled, text, checked) ==
    [state |-> state, enabled |-> enabled, text |-> text,
     checked |-> checked, clicked |-> FALSE]

\* the login page as the site serves it, but for the flash message f
Usual(f) ==
    [s \in ViewSelectors |->
       IF s = SelFlash THEN f ELSE Shown("visible", TRUE, <<>>, FALSE)]

\* the pages a test can find itself on: the usual page with its form, its
\* flash message or its checkbox in any condition.  An element of the form
\* that is attached lies in an attached form, and one that is visible gives
\* the form its extent: the form is visible then.  A form without a visible
\* element is visible or not, by what else it holds, and a page that has
\* none of the three elements may have no form (the secure page has none).
Views ==
    { w \in { [Usual(Absent) EXCEPT ![SelUsername] = u, ![SelPassword] = p,
                                    ![SelSubmit] = b, ![SelForm] = fm] :
               u \in {Absent, Shown("visible", TRUE, <<>>, FALSE)},
               p \in {Absent, Shown("visible", TRUE, <<>>, FALSE)},
               b \in {Absent, Shown("hidden", TRUE, <<>>, FALSE)}
                     \cup {Shown("visible", en, <<>>, FALSE) : en \in BOOLEAN},
               fm \in {Absent} \cup {Shown(st, TRUE, <<>>, FALSE) :
                                         st \in {"hidden", "visible"}} } :
        /\ (\E c \in FormChildren : w[c].state # "absent")
              => w[SelForm].state # "absent"
        /\ (\E c \in FormChildren : w[c].state = "visible")
              => w[SelForm].state = "visible" }
    \cup { Usual(f) :
        f \in {Absent, Shown("hidden", TRUE, <<>>, FALSE)}
              \cup {Shown("visible", TRUE, t, FALSE) : t \in Texts \cup {NullText}} }
    \cup { [Usual(Absent) EXCEPT ![SelAgree] = a] :
        a \in {Absent} \cup {Shown("visible", TRUE, <<>>, c) : c \in BOOLEAN} }

\* the element a locator designates: the last selector of its chain names the
\* element, the selectors before it the ancestors it must lie in.  The only
\* ancestor with a selector is the form #login, which holds its three
\* children and nothing that holds an element: a chain is one selector
\* (that of the form itself included), or #login and one of its children
\* on a page that has the form
ViewTarget(loc, v) ==
    LET sel == loc.chain[Len(loc.chain)]
        inScope == \/ Len(loc.chain) = 1
                   \/ /\ Len(loc.chain) = 2
                      /\ loc.chain[1] = SelForm
                      /\ v[SelForm].state # "absent"
                      /\ sel \in FormChildren
    IN IF sel \in ViewSelectors /\ inScope /\ v[sel].state # "absent"
       THEN [status |-> "ok", el |-> sel]
       ELSE [status |-> "TimeoutError", el |-> sel]

\* how the elements other than el are left alone
SetElem(v, el, field, value) == [v EXCEPT ![el][field] = value]

Actionable(v, el) == v[el].state = "visible" /\ v[el].enabled

\* The site behind the page.  A click that goes through on the enabled submit
\* button submits the login form, and page.goto asks for a page: the site
\* answers with a new page, which replaces the one shown, or it does not
\* answer (NoAnswer: the page shown stays).
NoAnswer == <<>>

Submits(v, el) == el = SelSubmit /\ v[el].enabled

\* the page after a click on el has gone through: the element has been
\* clicked, and an enabled checkbox changes its state.  (A click on the form
\* is recorded on the form: which of its elements lies under the pointer
\* is a matter of layout.)
Clicked(v, el, served) ==
    IF Submits(v, el) /\ served # NoAnswer THEN served
    ELSE IF Tag(el) = "checkbox" /\ v[el].enabled
         THEN [v EXCEPT ![el].clicked = TRUE, ![el].checked = ~v[el].checked]
         ELSE SetElem(v, el, "clicked", TRUE)

\* Playwright's locator primitives on the page v.  Each gives the status it
\* settles with, the page after it and the value it resolves to.  A primitive
\* that finds no element, or finds it not ready, rejects with TimeoutError
\* once its timeout has run out.
Settled(status, v, value) == [status |-> status, view |-> v, value |-> value]

Locator_waitFor(loc, args, v) ==
    LET t == ViewTarget(loc, v)
        met == CASE args.state = "attached" -> t.status = "ok"
                 [] args.state = "visible" ->
                        t.status = "ok" /\ v[t.el].state = "visible"
    IN Settled(IF met THEN "ok" ELSE "TimeoutError", v, Undefined)

\* click({force}): force skips the check that the element is enabled
Locator_click(loc, args, v, served) ==
    LET t == ViewTarget(loc, v)
    IN IF /\ t.status = "ok"
          /\ v[t.el].state = "visible"
          /\ (args.force \/ v[t.el].enabled)
       THEN Settled("ok", Clicked(v, t.el, served), Undefined)
       ELSE Settled("TimeoutError", v, Undefined)

\* dblclick clicks twice: a checkbox is back in the state it had.  When the
\* first click has submitted the form the page is the one the site serves
Locator_dblclick(loc, v, served) ==
    LET t == ViewTarget(loc, v)
        once == Clicked(v, t.el, served)
    IN IF t.status = "ok" /\ Actionable(v, t.el)
       THEN Settled("ok",
                    IF Submits(v, t.el) /\ served # NoAnswer THEN once
                    ELSE Clicked(once, t.el, served),
                    Undefined)
       ELSE Settled("TimeoutError", v, Undefined)

\* hover waits for the element to be visible, not for it to be enabled: the
\* pointer moves over a disabled button as well
Locator_hover(loc, v) ==
    LET t == ViewTarget(loc, v)
    IN IF t.status = "ok" /\ v[t.el].state = "visible"
       THEN Settled("ok", v, Undefined)
       ELSE Settled("TimeoutError", v, Undefined)

\* fill waits for the element to be visible and enabled; an element that
\* holds no text cannot be filled, and fill throws
Locator_fill(loc, text, v) ==
    LET t == ViewTarget(loc, v)
    IN IF t.status = "ok" /\ Actionable(v, t.el)
       THEN IF Tag(t.el) = "text"
            THEN Settled("ok", SetElem(v, t.el, "text", text), Undefined)
            ELSE Settled("Error", v, Undefined)
       ELSE Settled("TimeoutError", v, Undefined)

\* the number of space characters of a text
RECURSIVE Spaces(_)
Spaces(text) ==
    IF text = <<>> THEN 0
    ELSE (IF Head(text) = " " THEN 1 ELSE 0) + Spaces(Tail(text))

\* an element that can take the focus: a field, a checkbox or a button
\* that is visible and enabled
Focusable(v, el) ==
    Actionable(v, el) /\ Tag(el) \in {"text", "checkbox", "button"}

\* the body of the page, which has the focus when no element has it
Body == SelCss("body")

\* pressSequentially focuses the element and sends one keystroke for each
\* character of text.  It waits for the element to be attached only.  The
\* keystrokes go to the element that has the focus: the target when it can
\* take it, else `focus`, the element that had it before (Body: none, the
\* keystrokes reach no element).  In a field the characters replace the
\* selection, the text held from position `from` + 1 to position `to`:
\* with `from` = `to` nothing is selected and the characters go in at the
\* caret.  A space clicks a checkbox or a button; the other characters
\* leave both as they are.  Once the button has submitted the form the
\* keystrokes that follow reach no element.
Locator_pressSequentially(loc, text, v, served, focus, from, to) ==
    LET t == ViewTarget(loc, v)
        el == IF Focusable(v, t.el) THEN t.el ELSE focus
        held == v[el].text
        typed == SubSeq(held, 1, from) \o text \o SubSeq(held, to + 1, Len(held))
        after ==
          CASE el = Body \/ text = <<>> -> v
            [] Tag(el) = "text" -> SetElem(v, el, "text", typed)
            [] Spaces(text) = 0 -> v
            [] Tag(el) = "checkbox" /\ Spaces(text) % 2 = 0 ->
                 SetElem(v, el, "clicked", TRUE)
            [] OTHER -> Clicked(v, el, served)
    IN IF t.status = "ok"
       THEN Settled("ok", after, Undefined)
       ELSE Settled("TimeoutError", v, Undefined)

\* page.goto(url, {waitUntil, timeout}): the page the site answers with
\* replaces the page shown; without an answer goto rejects when its timeout
\* has run out
Page_goto(url, args, v, served) ==
    IF served # NoAnswer THEN Settled("ok", served, Undefined)
    ELSE Settled("TimeoutError", v, Undefined)

\* check() / uncheck() first read the checked state, which throws on an
\* element that is no checkbox ("Not a checkbox or radio button"); a
\* checkbox already in the state asked for is left alone, any other is
\* clicked once it is visible and enabled
Locator_setChecked(loc, value, v) ==
    LET t == ViewTarget(loc, v)
    IN CASE t.status # "ok" -> Settled("TimeoutError", v, Undefined)
         [] Tag(t.el) # "checkbox" -> Settled("Error", v, Undefined)
         [] v[t.el].checked = value -> Settled("ok", v, Undefined)
         [] Actionable(v, t.el) ->
              Settled("ok", Clicked(v, t.el, NoAnswer), Undefined)
         [] OTHER -> Settled("TimeoutError", v, Undefined)

Locator_isChecked(loc, v) ==
    LET t == ViewTarget(loc, v)
    IN CASE t.status # "ok" -> Settled("TimeoutError", v, Undefined)
         [] Tag(t.el) # "checkbox" -> Settled("Error", v, Undefined)
         [] OTHER -> Settled("ok", v, v[t.el].checked)

\* textContent resolves to the text of the nodes inside the element, or to
\* null: an <input> has no node inside it, the text it holds is its value;
\* the form has the text of its button (the white space between its
\* elements aside)
Locator_textContent(loc, v) ==
    LET t == ViewTarget(loc, v)
    IN IF t.status = "ok"
       THEN Settled("ok", v,
                    CASE Tag(t.el) \in {"text", "checkbox"} -> <<>>
                      [] Tag(t.el) = "form" -> v[SelSubmit].text
                      [] OTHER -> v[t.el].text)
       ELSE Settled("TimeoutError", v, Undefined)

\* isVisible does not wait and does not reject: no element is not visible
Locator_isVisible(loc, v) ==
    LET t == ViewTarget(loc, v)
    IN Settled("ok", v, t.status = "ok" /\ v[t.el].state = "visible")

Locator_countView(loc, v) ==
    Settled("ok", v, IF ViewTarget(loc, v).status = "ok" THEN 1 ELSE 0)

\* the primitive named prim, invoked with args (and the text of a fill),
\* when the site answers with the page `served`
Primitive(prim, loc, args, text, v, served, focus, from, to) ==
    CASE prim = "waitFor"     -> Locator_waitFor(loc, args, v)
      [] prim = "goto"        -> Page_goto(loc.url, args, v, served)
      [] prim = "click"       -> Locator_click(loc, args, v, served)
      [] prim = "dblclick"    -> Locator_dblclick(loc, v, served)
      [] prim = "pressSequentially" ->
            Locator_pressSequentially(loc, text, v, served, focus, from, to)
      [] prim = "hover"       -> Locator_hover(loc, v)
      [] prim = "fill"        -> Locator_fill(loc, text, v)
      [] prim = "check"       -> Locator_setChecked(loc, TRUE, v)
      [] prim = "uncheck"     -> Locator_setChecked(loc, FALSE, v)
      [] prim = "isChecked"   -> Locator_isChecked(loc, v)
      [] prim = "textContent" -> Locator_textContent(loc, v)
      [] prim = "isVisible"   -> Locator_isVisible(loc, v)
      [] prim = "count"       -> Locator_countView(loc, v)

-----------------------------------------------------------------------------
(* CommonActions on the login / secure page.  Each element operation        *)
(* resolves its input, optionally awaits locator.waitFor, then awaits one   *)
(* primitive.  `wait` is the state waited for ("none": no wait), `prim`     *)
(* the primitive and `args` the options object handed to it.                *)

\* an options object without properties
NoOptions == [name \in {} |-> 0]

\* const { name = default } = options
Opt(options, name, default) ==
    IF name \in DOMAIN options THEN options[name] ELSE default

DefaultTimeout  == 10000
SecureTimeout   == 8000
CallerTimeout   == 5000
NavigateTimeout == 30000
TypeDelay       == 100
CallerDelay     == 50

Steps(wait, waitArgs, prim, args) ==
    [wait |-> wait, waitArgs |-> waitArgs, prim |-> prim, args |-> args]

\* navigate(url, options) awaits page.goto and nothing else; it resolves no
\* locator
navigate(options) ==
    Steps("none", NoOptions, "goto",
          [waitUntil |-> Opt(options, "waitUntil", "domcontentloaded"),
           timeout |-> Opt(options, "timeout", NavigateTimeout)])

\* click without the wait for visibility
clickNoWait(options) ==
    Steps("none", NoOptions, "click",
          [force |-> Opt(options, "force", FALSE),
           timeout |-> Opt(options, "timeout", DefaultTimeout)])

click(options) ==
    Steps("visible",
          [state |-> "visible", timeout |-> Opt(options, "timeout", DefaultTimeout)],
          "click",
          [force |-> Opt(options, "force", FALSE),
           timeout |-> Opt(options, "timeout", DefaultTimeout)])

dblClick(options) == Steps("none", NoOptions, "dblclick", NoOptions)

hover(options) == Steps("none", NoOptions, "hover", NoOptions)

fill(options) ==
    Steps("none", NoOptions, "fill",
          [timeout |-> Opt(options, "timeout", DefaultTimeout)])

type(options) ==
    Steps("none", NoOptions, "pressSequentially",
          [delay |-> Opt(options, "delay", TypeDelay),
           timeout |-> Opt(options, "timeout", DefaultTimeout)])

\* clear is locator.fill(''): the text of a clear call is the empty string
clear(options) == Steps("none", NoOptions, "fill", NoOptions)

check(options) ==
    Steps("none", NoOptions, "check",
          [timeout |-> Opt(options, "timeout", DefaultTimeout)])

\* uncheck declares no options parameter: what the caller passes is dropped
uncheck(options) == Steps("none", NoOptions, "uncheck", NoOptions)

isChecked(options) ==
    Steps("attached",
          [state |-> "attached", timeout |-> Opt(options, "timeout", DefaultTimeout)],
          "isChecked", NoOptions)

getText(options) ==
    Steps("visible",
          [state |-> "visible", timeout |-> Opt(options, "timeout", DefaultTimeout)],
          "textContent",
          [timeout |-> Opt(options, "timeout", DefaultTimeout)])

isVisible(options) ==
    Steps("none", NoOptions, "isVisible",
          [timeout |-> Opt(options, "timeout", DefaultTimeout)])

waitFor(options) ==
    Steps("none", NoOptions, "waitFor",
          [state |-> Opt(options, "state", "visible"),
           timeout |-> Opt(options, "timeout", DefaultTimeout)])

count(options) == Steps("none", NoOptions, "count", NoOptions)

ElementOps == {"click", "dblClick", "hover", "fill", "type", "clear", "check",
               "uncheck", "isChecked", "getText", "isVisible", "waitFor", "count"}

\* the operations of the wrapper: navigate and the element operations
WrapperOps == {"navigate"} \cup ElementOps

StepsOf(w, options) ==
    CASE w = "navigate"  -> navigate(options)
      [] w = "click"     -> click(options)
      [] w = "dblClick"  -> dblClick(options)
      [] w = "hover"     -> hover(options)
      [] w = "fill"      -> fill(options)
      [] w = "type"      -> type(options)
      [] w = "clear"     -> clear(options)
      [] w = "check"     -> check(options)
      [] w = "uncheck"   -> uncheck(options)
      [] w = "isChecked" -> isChecked(options)
      [] w = "getText"   -> getText(options)
      [] w = "isVisible" -> isVisible(options)
      [] w = "waitFor"   -> waitFor(options)
      [] w = "count"     -> count(options)

\* what getText returns for the text read
getTextResult(text, options) ==
    IF Opt(options, "trim", TRUE) THEN OptionalTrim(text)
    ELSE Coalesce(text, Undefined)

\* what a wrapper returns for the value its primitive resolved to
WrapperResult(w, value, options) ==
    CASE w = "getText" -> getTextResult(value, options)
      [] w \in {"isChecked", "isVisible", "count"} -> value
      [] OTHER -> Undefined

-----------------------------------------------------------------------------
(* LoginPage and SecurePage.  A method is a sequence of awaited wrapper     *)
(* calls; WrapperCall gives the call it makes at each stage.                *)

\* the page objects the login tests use, and their wrappers
loginPage  == mgr["testA"]._loginPage
securePage == mgr["testA"]._securePage

WCall(w, input, options, text) ==
    [w |-> w, input |-> input, options |-> options, text |-> text]

\* login with the click before the two fills
loginClickFirst(stage, username, password) ==
    CASE stage = 1 -> WCall("click", heap[loginPage].locators.loginButton,
                            NoOptions, <<>>)
      [] stage = 2 -> WCall("fill", heap[loginPage].locators.usernameInput,
                            NoOptions, username)
      [] stage = 3 -> WCall("fill", heap[loginPage].locators.passwordInput,
                            NoOptions, password)

login(stage, username, password) ==
    CASE stage = 1 -> WCall("fill", heap[loginPage].locators.usernameInput,
                            NoOptions, username)
      [] stage = 2 -> WCall("fill", heap[loginPage].locators.passwordInput,
                            NoOptions, password)
      [] stage = 3 -> WCall("click", heap[loginPage].locators.loginButton,
                            NoOptions, <<>>)

\* a URL handed to navigate
Url(path) == [url |-> path]

\* LoginPage.navigate: this.actions.navigate('/login')
LoginPage_navigate == WCall("navigate", Url("/login"), NoOptions, <<>>)

getErrorMessage ==
    WCall("getText", heap[loginPage].locators.errorMessage, NoOptions, <<>>)

assertErrorMessage == getErrorMessage

\* assertSuccessMessage reading the password field instead of the flash
assertSuccessMessageOtherElement ==
    WCall("getText", heap[loginPage].locators.passwordInput, NoOptions, <<>>)

assertSuccessMessage == getErrorMessage

getMessage ==
    WCall("getText", heap[securePage].locators.flashMessage,
          [timeout |-> SecureTimeout], <<>>)

assertLoggedInMessage == getMessage

\* a call of a method: its name and arguments
Method(op, input, options, text, text2, expected) ==
    [op |-> op, input |-> input, options |-> options, text |-> text,
     text2 |-> text2, expected |-> expected]

Stages(op) == IF op = "login" THEN 3 ELSE 1

\* the object whose method runs, and the wrapper it calls
ActionsOf(op) ==
    IF op \in {"getMessage", "assertLoggedInMessage"}
    THEN heap[securePage].actions
    ELSE heap[loginPage].actions

WrapperCall(m, stage) ==
    CASE m.op \in WrapperOps -> WCall(m.op, m.input, m.options, m.text)
      [] m.op = "LoginPage.navigate" -> LoginPage_navigate
      [] m.op = "login" -> login(stage, m.text, m.text2)
      [] m.op = "getErrorMessage" -> getErrorMessage
      [] m.op = "assertErrorMessage" -> assertErrorMessage
      [] m.op = "assertSuccessMessage" -> assertSuccessMessage
      [] m.op = "getMessage" -> getMessage
      [] m.op = "assertLoggedInMessage" -> assertLoggedInMessage

\* what the method does with the value of its last wrapper call
Outcome(status, value) == [status |-> status, value |-> value]

MethodResult(m, value) ==
    CASE m.op \in WrapperOps -> Outcome("ok", value)
      [] m.op \in {"LoginPage.navigate", "login"} -> Outcome("ok", Undefined)
      [] m.op = "getErrorMessage" -> Outcome("ok", value)
      [] m.op \in {"assertErrorMessage", "assertSuccessMessage"} ->
            Outcome(ToContain(value, m.expected), Undefined)
      [] m.op = "getMessage" -> Outcome("ok", Coalesce(value, <<>>))
      [] m.op = "assertLoggedInMessage" ->
            Outcome(ToContain(Coalesce(value, <<>>), m.expected), Undefined)

\* where a method goes once a wrapper call has settled: nothing catches, so
\* a rejection leaves the method at once
\* a method that goes on after a rejected wrapper call
AfterWrapperSwallow(status, stage, stages) ==
    IF stage < stages THEN "next" ELSE "return"

AfterWrapper(status, stage, stages) ==
    IF status # "ok" THEN "throw"
    ELSE IF stage < stages THEN "next"
    ELSE "return"

-----------------------------------------------------------------------------
(* A method of CommonActions, LoginPage or SecurePage runs as the sequence  *)
(* of its awaits.  `events` records, in order: a wrapper call beginning     *)
(* ("begin"), a primitive being invoked with its options ("invoke"), the    *)
(* primitive settling ("settle") and the wrapper call ending ("end").       *)

Ev(kind, name, target, args, text, status) ==
    [kind |-> kind, name |-> name, target |-> target, args |-> args,
     text |-> text, status |-> status]

NoMethod == Method("none", SelCss("none"), NoOptions, <<>>, <<>>, <<>>)

NoRunning == [m |-> NoMethod, stage |-> 0, pc |-> "none",
              call |-> WCall("none", SelCss("none"), NoOptions, <<>>),
              locator |-> PageLocator(0, SelCss("none")),
              steps |-> Steps("none", NoOptions, "none", NoOptions),
              pre |-> <<>>]

NoReturned == [m |-> NoMethod, status |-> "none", value |-> Undefined,
               pre |-> <<>>]

\* the synchronous start of a wrapper call: resolve the input, invoke the
\* first thing the wrapper awaits
Start(c, actions) ==
    LET st == StepsOf(c.w, c.options)
        loc == IF c.w = "navigate"
               THEN [page |-> heap[actions].page, url |-> c.input.url]
               ELSE _getLocator(actions, c.input)
    IN [pc |-> IF st.wait = "none" THEN "prim" ELSE "wait",
        locator |-> loc,
        steps |-> st,
        events |-> << Ev("begin", c.w, c.input, c.options, c.text, "none"),
                      IF st.wait = "none"
                      THEN Ev("invoke", st.prim, loc, st.args, c.text, "none")
                      ELSE Ev("invoke", "waitFor", loc, st.waitArgs, <<>>, "none") >>]

\* a test calls a method with its arguments and awaits it
CallMethod(op, input, options, text, text2, expected) ==
    /\ running.m.op = "none"
    /\ returned.m.op = "none"
    /\ LET m == Method(op, input, options, text, text2, expected)
           c == WrapperCall(m, 1)
           s == Start(c, ActionsOf(op))
       IN /\ running' = [m |-> m, stage |-> 1, pc |-> s.pc, call |-> c,
                         locator |-> s.locator, steps |-> s.steps, pre |-> view]
          /\ events' = s.events
    /\ UNCHANGED <<view, returned>>
    /\ UNCHANGED <<pomVars, cbVars, toolVars>>

\* the wrapper call in progress has settled with status and value, on page v
Settle(status, value, v, evs) ==
    LET m == running.m
        a == AfterWrapper(status, running.stage, Stages(m.op))
        ended == Append(evs, Ev("end", running.call.w, running.call.input,
                                running.call.options, running.call.text, status))
    IN /\ view' = v
       /\ CASE a = "throw" ->
                 /\ running' = NoRunning
                 /\ returned' = [m |-> m, status |-> status, value |-> Undefined,
                                 pre |-> running.pre]
                 /\ events' = ended
            [] a = "return" ->
                 LET r == MethodResult(m, value)
                 IN /\ running' = NoRunning
                    /\ returned' = [m |-> m, status |-> r.status,
                                    value |-> r.value, pre |-> running.pre]
                    /\ events' = ended
            [] a = "next" ->
                 LET c == WrapperCall(m, running.stage + 1)
                     s == Start(c, ActionsOf(m.op))
                 IN /\ running' = [running EXCEPT !.stage = running.stage + 1,
                                                  !.pc = s.pc, !.call = c,
                                                  !.locator = s.locator,
                                                  !.steps = s.steps]
                    /\ events' = ended \o s.events
                    /\ UNCHANGED returned

\* the awaited locator.waitFor settles
StepAwaitWait ==
    /\ running.pc = "wait"
    /\ LET st == running.steps
           r == Locator_waitFor(running.locator, st.waitArgs, view)
           evs == Append(events, Ev("settle", "waitFor", running.locator,
                                    st.waitArgs, <<>>, r.status))
       IN IF r.status = "ok"
          THEN /\ running' = [running EXCEPT !.pc = "prim"]
               /\ events' = Append(evs, Ev("invoke", st.prim, running.locator,
                                           st.args, running.call.text, "none"))
               /\ UNCHANGED <<view, returned>>
          ELSE Settle(r.status, Undefined, view, evs)
    /\ UNCHANGED <<pomVars, cbVars, toolVars>>

\* the pages the site can answer the primitive with: it is asked for a
\* page by goto and by a click that submits the form
Answers(prim, loc, args, text, v) ==
    LET asked ==
          CASE prim = "goto" -> TRUE
            [] prim \in {"click", "dblclick"} ->
                 LET r == Primitive(prim, loc, args, text, v, NoAnswer, Body, 0, 0)
                     t == ViewTarget(loc, v)
                 IN r.status = "ok" /\ Submits(v, t.el)
            [] prim = "pressSequentially" ->
                 LET t == ViewTarget(loc, v)
                 IN /\ t.status = "ok"
                    /\ t.el = SelSubmit \/ ~Focusable(v, t.el)
                    /\ Focusable(v, SelSubmit)
                    /\ Spaces(text) > 0
            [] OTHER -> FALSE
    IN IF asked THEN Views \cup {NoAnswer} ELSE {NoAnswer}

\* where the keystrokes of a primitive go in, as <<focus, from, to>>: the
\* element that has the focus when the target cannot take it, and the
\* selection in the field that receives the keystrokes.  The browser moves
\* the focus to the element a test fills, clicks or types into, puts the
\* caret at the start of a field it focuses for the first time and behind
\* the text a fill or a keystroke has put in; a click puts the caret where
\* the pointer is and a double click selects the word there.  The model
\* follows neither: the focus is on any element that can take it or on
\* none, and any part of the text held is selected (`from` = `to`: none,
\* the caret).
Selections(prim, loc, v) ==
    LET t == ViewTarget(loc, v)
        receivers == IF Focusable(v, t.el) THEN {t.el}
                     ELSE {el \in ViewSelectors : Focusable(v, el)} \cup {Body}
        length(el) == IF el # Body /\ Tag(el) = "text" THEN Len(v[el].text)
                      ELSE 0
    IN IF prim = "pressSequentially" /\ t.status = "ok"
       THEN UNION { UNION { { <<el, from, to>> : from \in 0..to } :
                              to \in 0..length(el) } : el \in receivers }
       ELSE {<<Body, 0, 0>>}

\* the awaited primitive settles
StepAwaitPrimitive ==
    /\ running.pc = "prim"
    /\ \E served \in Answers(running.steps.prim, running.locator,
                              running.steps.args, running.call.text, view),
          sel \in Selections(running.steps.prim, running.locator, view) :
       LET st == running.steps
           r == Primitive(st.prim, running.locator, st.args, running.call.text,
                          view, served, sel[1], sel[2], sel[3])
           evs == Append(events, Ev("settle", st.prim, running.locator,
                                    st.args, running.call.text, r.status))
           value == IF r.status = "ok"
                    THEN WrapperResult(running.call.w, r.value, running.call.options)
                    ELSE Undefined
       IN Settle(r.status, value, r.view, evs)
    /\ UNCHANGED <<pomVars, cbVars, toolVars>>

\* the test that awaited the method resumes with its outcome
Resume ==
    /\ returned.m.op # "none"
    /\ returned' = NoReturned
    /\ events' = <<>>
    /\ UNCHANGED <<view, running>>
    /\ UNCHANGED <<pomVars, cbVars, toolVars>>

\* the calls a test makes
callClick(input, options) ==
    CallMethod("click", input, options, <<>>, <<>>, <<>>)
callDblClick(input) ==
    CallMethod("dblClick", input, NoOptions, <<>>, <<>>, <<>>)
callHover(input) ==
    CallMethod("hover", input, NoOptions, <<>>, <<>>, <<>>)
callFill(input, text, options) ==
    CallMethod("fill", input, options, text, <<>>, <<>>)
\* the texts of the model are at most MaxText long: a test types no more
\* than the field can still take
callType(input, text, options) ==
    /\ Len(view[SelUsername].text) + Len(text) <= MaxText
    /\ CallMethod("type", input, options, text, <<>>, <<>>)
callNavigate(url, options) ==
    CallMethod("navigate", url, options, <<>>, <<>>, <<>>)
callLoginPageNavigate ==
    CallMethod("LoginPage.navigate", SelCss("none"), NoOptions, <<>>, <<>>, <<>>)
callClear(input) ==
    CallMethod("clear", input, NoOptions, <<>>, <<>>, <<>>)
callCheck(input, options) ==
    CallMethod("check", input, options, <<>>, <<>>, <<>>)
callUncheck(input, options) ==
    CallMethod("uncheck", input, options, <<>>, <<>>, <<>>)
callIsChecked(input, options) ==
    CallMethod("isChecked", input, options, <<>>, <<>>, <<>>)
callGetText(input, options) ==
    CallMethod("getText", input, options, <<>>, <<>>, <<>>)
callIsVisible(input, options) ==
    CallMethod("isVisible", input, options, <<>>, <<>>, <<>>)
callWaitFor(input, options) ==
    CallMethod("waitFor", input, options, <<>>, <<>>, <<>>)
callCount(input) ==
    CallMethod("count", input, NoOptions, <<>>, <<>>, <<>>)
callLogin(username, password) ==
    CallMethod("login", SelCss("none"), NoOptions, username, password, <<>>)
callGetErrorMessage ==
    CallMethod("getErrorMessage", SelCss("none"), NoOptions, <<>>, <<>>, <<>>)
callAssertErrorMessage(expected) ==
    CallMethod("assertErrorMessage", SelCss("none"), NoOptions,
               <<>>, <<>>, expected)
callAssertSuccessMessage(expected) ==
    CallMethod("assertSuccessMessage", SelCss("none"), NoOptions,
               <<>>, <<>>, expected)
callGetMessage ==
    CallMethod("getMessage", SelCss("none"), NoOptions, <<>>, <<>>, <<>>)
callAssertLoggedInMessage(expected) ==
    CallMethod("assertLoggedInMessage", SelCss("none"), NoOptions,
               <<>>, <<>>, expected)

\* no method of the login / secure page is in use
NoActions ==
    /\ view = <<>>
    /\ running = NoRunning
    /\ returned = NoReturned
    /\ events = <<>>

\* no method of the checkboxes page is in use
NoCheckboxes ==
    /\ dom = <<>>
    /\ task = NoTask
    /\ done = NoDone
    /\ prev = NoPrev
    /\ calls = <<>>
    /\ script = <<>>

-----------------------------------------------------------------------------
(* toggleCheckbox calls that overlap.  A test that does not await a call    *)
(* before it makes the next (Promise.all over two calls, a forgotten await) *)
(* has several toggleCheckbox calls in progress on its page; each runs from *)
(* one await to the next, and the runtime picks which one resumes.          *)

\* the calls a test has in progress at once
FlowIds == {"first", "second"}

NoFlow == [pc |-> "none", index |-> 0, selector |-> SelCss(""),
           isCurrentlyChecked |-> FALSE]

NoWritten == [flow |-> "none", prim |-> "none", el |-> 0, was |-> FALSE]

\* no call is in progress beside the awaited one
NoOverlap ==
    /\ flows = [f \in FlowIds |-> NoFlow]
    /\ written = NoWritten

\* the test calls toggleCheckbox(index) and does not await it: the call runs
\* up to its first await, the waitFor inside CommonActions.isChecked
startToggleCheckbox(f, index) ==
    /\ flows[f].pc = "none"
    /\ flows' = [flows EXCEPT ![f] = [pc |-> "waitFor", index |-> index,
                                      selector |-> SelNthOfType(index),
                                      isCurrentlyChecked |-> FALSE]]
    /\ UNCHANGED <<dom, written>>
    /\ UNCHANGED <<pomVars, task, done, prev, calls, script, actVars, cfgVars,
                   scrVars>>

\* CommonActions.isChecked, first await: locator.waitFor({state: 'attached'})
FlowWaitFor(f) ==
    /\ flows[f].pc = "waitFor"
    /\ LET t == Target(_getLocator(cbActions, flows[f].selector), dom)
       IN flows' = [flows EXCEPT ![f] = IF t.status = "ok"
                                        THEN [@ EXCEPT !.pc = "isChecked"]
                                        ELSE NoFlow]
    /\ UNCHANGED <<dom, written>>
    /\ UNCHANGED <<pomVars, task, done, prev, calls, script, actVars, cfgVars,
                   scrVars>>

\* CommonActions.isChecked, second await: locator.isChecked(); the call
\* keeps the value and branches on it
FlowIsChecked(f) ==
    /\ flows[f].pc = "isChecked"
    /\ LET t == Target(_getLocator(cbActions, flows[f].selector), dom)
       IN flows' = [flows EXCEPT ![f] =
                      IF CheckedState(t, dom) = "ok"
                      THEN [@ EXCEPT !.isCurrentlyChecked = dom[t.el].checked,
                                     !.pc = ToggleBranch(dom[t.el].checked)]
                      ELSE NoFlow]
    /\ UNCHANGED <<dom, written>>
    /\ UNCHANGED <<pomVars, task, done, prev, calls, script, actVars, cfgVars,
                   scrVars>>

\* await this.actions.check(selector) / this.actions.uncheck(selector): the
\* write, after which the call returns
FlowWrite(f) ==
    /\ flows[f].pc \in {"check", "uncheck"}
    /\ LET r == IF flows[f].pc = "check"
                THEN CommonActions_check(cbActions, flows[f].selector, dom)
                ELSE CommonActions_uncheck(cbActions, flows[f].selector, dom)
       IN /\ dom' = r.dom
          /\ written' = IF r.status = "ok"
                        THEN [flow |-> f, prim |-> flows[f].pc, el |-> r.el,
                              was |-> dom[r.el].checked]
                        ELSE written
    /\ flows' = [flows EXCEPT ![f] = NoFlow]
    /\ UNCHANGED <<pomVars, task, done, prev, calls, script, actVars, cfgVars,
                   scrVars>>

-----------------------------------------------------------------------------
(* playwright.config.ts.  The runner evaluates the module once when it      *)
(* starts: the settings depend on the number of CPUs and on the CI          *)
(* environment variable, which is undefined or a string.                    *)

\* number of logical CPUs of the largest machine considered
MaxCpus == 32

\* the cap on the number of workers
WorkerCap == 20

\* what CI has outside CI and inside it
CIWorkers == 2
CIRetries == 2

\* the values process.env['CI'] can have
EnvValues == {Undefined} \cup Texts

\* a value in a condition: undefined and the empty string count as false,
\* every other string (" ", "false", "0") as true
ToBoolean(value) == value # Undefined /\ value # NullText /\ value # <<>>

Min(a, b) == IF a <= b THEN a ELSE b

\* calculateWorkers without the cap
calculateWorkersNoCap(cpuCount) == (cpuCount * 3) \div 4

\* Math.floor(cpuCount * 0.75): 0.75 and the product are exact in a double,
\* so the result is the integer quotient of 3 * cpuCount by 4
calculateWorkers(cpuCount) == Min((cpuCount * 3) \div 4, WorkerCap)

\* the settings of the exported object that depend on the environment
defineConfig(cpuCount, ci) ==
    [forbidOnly |-> ToBoolean(ci),
     retries |-> IF ToBoolean(ci) THEN CIRetries ELSE 0,
     workers |-> IF ToBoolean(ci) THEN CIWorkers ELSE calculateWorkers(cpuCount),
     trace |-> IF ToBoolean(ci) THEN "on-first-retry" ELSE "retain-on-failure"]

NoConfig == [forbidOnly |-> FALSE, retries |-> -1, workers |-> -1,
             trace |-> "none"]

\* the runner has not started
NoRunner ==
    /\ cpus = 0
    /\ env = Undefined
    /\ config = NoConfig

\* the runner loads playwright.config.ts
LoadConfig ==
    /\ config = NoConfig
    /\ config' = defineConfig(cpus, env)
    /\ UNCHANGED <<cpus, env>>
    /\ UNCHANGED <<pomVars, cbVars, actVars, ovVars, scrVars>>

-----------------------------------------------------------------------------
(* The scraping scripts (scripts/solution.js and its TypeScript version).   *)
(* A script runs from one await to the next; `site` fixes what each awaited *)
(* step answers, so that both scripts meet the same site.                   *)

\* the awaited steps of a script, any of which may reject
ScriptSteps == {"launch", "newPage", "goto", "title", "table", "headers",
                "rows", "close"}

expectedColumns == <<"Company", "Contact", "Country">>

\* the header rows a site may show: the expected one in two orders, one with
\* a column missing, added, renamed or repeated, and none at all
HeaderRows == { <<>>,
                <<"Company", "Contact", "Country">>,
                <<"Country", "Company", "Contact">>,
                <<"Company", "Contact">>,
                <<"Company", "Contact", "Country", "Phone">>,
                <<"Name", "Contact", "Country">>,
                <<"Company", "Company", "Contact">> }

\* the tables a site may show: the number of <td> cells of each <tr>
RowTables == { <<>>, <<0>>, <<0, 3>>, <<0, 2, 4>> }

\* most uncaught exceptions the scripts of the page raise during a run
MaxPageErrors == 1

Sites == [throwsAt : ScriptSteps \cup {"none"}, titleOk : BOOLEAN,
          urlOk : BOOLEAN, table : BOOLEAN, headers : HeaderRows,
          rows : RowTables]

\* position of a column name in the order Array.prototype.sort() uses
CodeUnitOrder(name) ==
    CASE name = "Company" -> 1
      [] name = "Contact" -> 2
      [] name = "Country" -> 3
      [] name = "Name"    -> 4
      [] name = "Phone"   -> 5

RECURSIVE Insert(_, _)
Insert(name, sorted) ==
    IF sorted = <<>> THEN <<name>>
    ELSE IF CodeUnitOrder(name) < CodeUnitOrder(Head(sorted))
         THEN <<name>> \o sorted
         ELSE <<Head(sorted)>> \o Insert(name, Tail(sorted))

RECURSIVE Sort(_)
\* array.sort(): the array itself is put in order
Sort(array) ==
    IF array = <<>> THEN <<>>
    ELSE Insert(array[Len(array)], Sort(SubSeq(array, 1, Len(array) - 1)))

IncludesColumn(array, column) == \E i \in 1..Len(array) : array[i] = column

RECURSIVE Without(_, _)
\* array.filter(column => !other.includes(column))
Without(array, other) ==
    IF array = <<>> THEN <<>>
    ELSE (IF IncludesColumn(other, Head(array)) THEN <<>> ELSE <<Head(array)>>)
         \o Without(Tail(array), other)

RECURSIVE DataRows(_)
\* the rows with at least three cells, each the object of its first three
DataRows(rows) ==
    IF rows = <<>> THEN <<>>
    ELSE (IF Head(rows) >= 3 THEN <<3>> ELSE <<>>) \o DataRows(Tail(rows))

\* a line on the console: the stream, the message, and what it interpolates
Line(stream, message, values) == <<stream, message, values>>

\* the lines about the title and the URL
PageLines(s) ==
    (IF s.titleOk THEN <<>> ELSE <<Line("error", "Page title mismatch", <<>>)>>)
    \o (IF s.urlOk THEN <<>> ELSE <<Line("error", "Page URL mismatch", <<>>)>>)

\* the lines about the column headers; both arrays are sorted in place by
\* the comparison before anything is printed
StructureLines(columnHeaders) ==
    LET actual   == Sort(columnHeaders)
        expected == Sort(expectedColumns)
        addedColumns   == Without(actual, expected)
        deletedColumns == Without(expected, actual)
    IN IF actual # expected
       THEN << Line("log", "Table structure has changed", <<>>),
               Line("log", "Expected columns", expected),
               Line("log", "Actual columns", actual) >>
            \o (IF Len(addedColumns) > 0
                THEN <<Line("log", "Added columns", addedColumns)>> ELSE <<>>)
            \o (IF Len(deletedColumns) > 0
                THEN <<Line("log", "Deleted columns", deletedColumns)>> ELSE <<>>)
       ELSE <<Line("log", "Table structure is intact", <<>>)>>

\* the lines about the rows
RowLines(rows) ==
    (IF Len(DataRows(rows)) = 0
     THEN <<Line("error", "No rows found", <<>>)>> ELSE <<>>)
    \o <<Line("log", "rows", DataRows(rows))>>

\* a run: the await it is suspended at, whether `browser` holds a browser
\* and `page` a page, whether the pageerror handler is registered, the awaits
\* during which the page raised an uncaught exception, how often
\* browser.close() was invoked, the console, and how it ended
NoRun == [pc |-> "none", browser |-> FALSE, page |-> FALSE, listening |-> FALSE,
          errors |-> <<>>, closes |-> 0, out |-> <<>>, end |-> "none"]

\* the script was started and awaits chromium.launch
Started == [pc |-> "launch", browser |-> FALSE, page |-> FALSE,
            listening |-> FALSE, errors |-> <<>>, closes |-> 0, out |-> <<>>,
            end |-> "running"]

Log(r, lines) == [r EXCEPT !.out = @ \o lines]
Ended(r, end) == [r EXCEPT !.pc = "done", !.end = end]

\* browser.close() is invoked and awaited at pc
Close(r, pc) == [r EXCEPT !.closes = @ + 1, !.pc = pc]

\* the title and the URL are checked, then page.on('pageerror', ...)
\* registers the handler, then page.$ is invoked
CheckPage(r, s) ==
    [Log(r, PageLines(s)) EXCEPT !.listening = TRUE, !.pc = "table"]

\* the page is there from browser.newPage() until a browser.close() has
\* closed the browser: a close that rejects has not, and the page goes on
\* while the script awaits the next one
PageOpen(r, s) ==
    r.end = "running" /\ r.page /\ (r.closes <= 1 \/ s.throwsAt = "close")

\* the step a run awaits at pc
AwaitedStep(pc) ==
    IF pc \in {"closeEarly", "finallyClose"} THEN "close" ELSE pc

\* the page raises an uncaught exception while the script is suspended: the
\* handler, if it is registered by then, prints its line
pageerror(r) ==
    [(IF r.listening
      THEN Log(r, <<Line("error", "JavaScript error", <<>>)>>)
      ELSE r) EXCEPT !.errors = Append(@, AwaitedStep(r.pc))]

\* the JavaScript script: the run after the step awaited at r.pc has settled.
\* Nothing catches: a rejected step ends the script with the error.
JSwebscrape(r, s) ==
    IF s.throwsAt = (IF r.pc = "closeEarly" THEN "close" ELSE r.pc)
    THEN Ended(r, "threw")
    ELSE CASE r.pc = "launch"  -> [r EXCEPT !.browser = TRUE, !.pc = "newPage"]
           [] r.pc = "newPage" -> [r EXCEPT !.page = TRUE, !.pc = "goto"]
           [] r.pc = "goto"    -> [r EXCEPT !.pc = "title"]
           [] r.pc = "title"   -> CheckPage(r, s)
           [] r.pc = "table"   ->
                IF ~s.table
                THEN Close(Log(r, <<Line("error", "Table not found", <<>>)>>),
                           "closeEarly")
                ELSE [r EXCEPT !.pc = "headers"]
           [] r.pc = "headers" ->
                IF Len(s.headers) = 0
                THEN Close(Log(r, <<Line("error", "No column headers found", <<>>)>>),
                           "closeEarly")
                ELSE [Log(r, StructureLines(s.headers)) EXCEPT !.pc = "rows"]
           [] r.pc = "rows"    -> Close(Log(r, RowLines(s.rows)), "close")
           [] r.pc = "closeEarly" -> Ended(r, "returned")
           [] r.pc = "close"      -> Ended(r, "returned")

\* the finally block that does not close the browser
FinallyNoClose(r) == Ended(r, "returned")

\* the finally block of the TypeScript script: if (browser) await browser.close()
Finally(r) ==
    IF r.browser THEN Close(r, "finallyClose") ELSE Ended(r, "returned")

\* the catch block of the TypeScript script, and the finally block after it
Catch(r) == Finally(Log(r, <<Line("error", "Unexpected error occurred", <<>>)>>))

\* the TypeScript script: the run after the step awaited at r.pc has settled
TSwebscrape(r, s) ==
    IF r.pc = "finallyClose"
    THEN Ended(r, IF s.throwsAt = "close" THEN "threw" ELSE "returned")
    ELSE IF s.throwsAt = (IF r.pc = "closeEarly" THEN "close" ELSE r.pc)
    THEN Catch(r)
    ELSE CASE r.pc = "launch"  -> [r EXCEPT !.browser = TRUE, !.pc = "newPage"]
           [] r.pc = "newPage" -> [r EXCEPT !.page = TRUE, !.pc = "goto"]
           [] r.pc = "goto"    -> [r EXCEPT !.pc = "title"]
           [] r.pc = "title"   -> CheckPage(r, s)
           [] r.pc = "table"   ->
                IF ~s.table
                THEN Close(Log(r, <<Line("error", "Table not found", <<>>)>>),
                           "closeEarly")
                ELSE [r EXCEPT !.pc = "headers"]
           [] r.pc = "headers" ->
                IF Len(s.headers) = 0
                THEN Close(Log(r, <<Line("error", "No column headers found", <<>>)>>),
                           "closeEarly")
                ELSE [Log(r, StructureLines(s.headers)) EXCEPT !.pc = "rows"]
           [] r.pc = "rows"    -> Finally(Log(r, RowLines(s.rows)))
           [] r.pc = "closeEarly" -> Finally(r)

NoSite == [throwsAt |-> "none", titleOk |-> TRUE, urlOk |-> TRUE,
           table |-> TRUE, headers |-> <<>>, rows |-> <<>>]

\* no script runs
NoScripts ==
    /\ site = NoSite
    /\ jsRun = NoRun
    /\ tsRun = NoRun

\* the step the JavaScript script awaits settles
StepJS ==
    /\ jsRun.end = "running"
    /\ jsRun' = JSwebscrape(jsRun, site)
    /\ UNCHANGED <<site, tsRun>>
    /\ UNCHANGED <<pomVars, cbVars, actVars, cfgVars, ovVars>>

\* the step the TypeScript script awaits settles
StepTS ==
    /\ tsRun.end = "running"
    /\ tsRun' = TSwebscrape(tsRun, site)
    /\ UNCHANGED <<site, jsRun>>
    /\ UNCHANGED <<pomVars, cbVars, actVars, cfgVars, ovVars>>

\* the page raises an uncaught exception during the run of the JavaScript
\* script.  An exception raised before the handler is registered reaches no
\* handler and leaves no trace: those raised afterwards are the steps here.
PageErrorJS ==
    /\ PageOpen(jsRun, site)
    /\ jsRun.listening
    /\ Len(jsRun.errors) < MaxPageErrors
    /\ jsRun' = pageerror(jsRun)
    /\ UNCHANGED <<site, tsRun>>
    /\ UNCHANGED <<pomVars, cbVars, actVars, cfgVars, ovVars>>

\* the page raises an uncaught exception during the run of the TypeScript
\* script
PageErrorTS ==
    /\ PageOpen(tsRun, site)
    /\ tsRun.listening
    /\ Len(tsRun.errors) < MaxPageErrors
    /\ tsRun' = pageerror(tsRun)
    /\ UNCHANGED <<site, jsRun>>
    /\ UNCHANGED <<pomVars, cbVars, actVars, cfgVars, ovVars>>

-----------------------------------------------------------------------------
(* Specification of the factory: tests create managers and call getters.   *)

InitPom ==
    /\ heap = <<>>
    /\ mgr = <<>>
    /\ ret = NoRet
    /\ firstRet = NoHistory
    /\ ctorRuns = NoHistory
    /\ closed = {}

Init ==
    /\ InitPom
    /\ NoCheckboxes
    /\ NoActions
    /\ NoRunner
    /\ NoOverlap
    /\ NoScripts

Next ==
    \/ \E m \in MgrIds, p \in Pages : NewPomManager(m, p)
    \/ \E m \in MgrIds : getLoginPage(m)
    \/ \E m \in MgrIds : getSecurePage(m)
    \/ \E m \in MgrIds : getCheckboxesPage(m)

Spec == Init /\ [][Next]_vars

-----------------------------------------------------------------------------
(* Specification of a checkboxes test: test.beforeEach has created the      *)
(* PomManager, asked it for the CheckboxesPage and navigated; the page      *)
(* shows any well-formed set of inputs.  The test then calls methods one    *)
(* after the other, awaiting each; a navigate asks the site for the page    *)
(* again.                                                                   *)

\* test.beforeEach of the checkboxes tests has run: new PomManager(page),
\* then getCheckboxesPage()
CheckboxesPom ==
    /\ heap = NewCheckboxesPage(1, 1)
    /\ mgr = [m \in {"testA"} |->
                [NewPomManagerFields(1) EXCEPT !._checkboxesPage = 1]]
    /\ ret = [mgr |-> "testA", kind |-> "CheckboxesPage", obj |-> 1, fresh |-> TRUE]
    /\ firstRet = [NoHistory EXCEPT !["testA"]["CheckboxesPage"] = 1]
    /\ ctorRuns = [NoHistory EXCEPT !["testA"]["CheckboxesPage"] = 1]
    /\ closed = {}

CheckboxesTest ==
    /\ CheckboxesPom
    /\ dom \in Doms
    /\ task = NoTask
    /\ done = NoDone
    /\ prev = NoPrev
    /\ calls = <<>>
    /\ NoActions
    /\ NoRunner
    /\ NoOverlap
    /\ NoScripts

InitCheckboxes ==
    /\ CheckboxesTest
    /\ script = <<>>

Indexes == 1..MaxIndex

NextCheckboxes ==
    \/ \E i \in Indexes : callCheckCheckbox(i)
    \/ \E i \in Indexes : callUncheckCheckbox(i)
    \/ \E i \in Indexes : callToggleCheckbox(i)
    \/ \E i \in Indexes, e \in BOOLEAN : callValidateCheckboxState(i, e)
    \/ callCheckAll
    \/ callUncheckAll
    \/ callGetCheckboxStates
    \/ \E e \in SeqsUpTo(BOOLEAN, MaxExpected) : callValidateAllCheckboxStates(e)
    \/ callGetCheckboxCount
    \/ callActionsNavigate
    \/ StepCheck
    \/ StepUncheck
    \/ StepWaitFor
    \/ StepIsChecked
    \/ StepAll
    \/ StepLoopIsChecked
    \/ StepLoopCheck
    \/ StepLoopUncheck
    \/ \E i \in 1..MaxElems : StepRead(i)
    \/ StepCount
    \/ StepGoto

SpecCheckboxes == InitCheckboxes /\ [][NextCheckboxes]_vars

-----------------------------------------------------------------------------
(* Specification of the scripted checkbox tests: on any page, the test      *)
(* calls checkCheckbox(1), uncheckCheckbox(2) and then reads or validates   *)
(* all states.                                                              *)

Scripted(op, index, expectedStates) ==
    [op |-> op, index |-> index, expectedStates |-> expectedStates]

EndOfScript == Scripted("end", 0, <<>>)

CheckThenUncheck ==
    << Scripted("checkCheckbox", 1, <<>>), Scripted("uncheckCheckbox", 2, <<>>) >>

Scripts ==
    { CheckThenUncheck \o << Scripted("getCheckboxStates", 0, <<>>), EndOfScript >>,
      CheckThenUncheck \o << Scripted("validateAllCheckboxStates", 0, <<TRUE, FALSE>>),
                             EndOfScript >> }

InitScripted ==
    /\ CheckboxesTest
    /\ script \in Scripts

NextScripted ==
    \/ \E i \in Indexes : callCheckCheckbox(i)
    \/ \E i \in Indexes : callUncheckCheckbox(i)
    \/ callGetCheckboxStates
    \/ \E e \in SeqsUpTo(BOOLEAN, MaxExpected) : callValidateAllCheckboxStates(e)
    \/ StepCheck
    \/ StepUncheck
    \/ StepAll
    \/ \E i \in 1..MaxElems : StepRead(i)

SpecScripted == InitScripted /\ [][NextScripted]_vars

-----------------------------------------------------------------------------
(* Specification of a login test: test.beforeEach has created the           *)
(* PomManager and asked it for the LoginPage and the SecurePage; the        *)
(* browser shows any of the pages of Views.  The test calls methods of the  *)
(* page objects and of their wrapper one after the other, awaiting each.    *)

\* test.beforeEach of the login tests has run: new PomManager(page), then
\* getLoginPage() and getSecurePage()
LoginPom ==
    /\ heap = NewLoginPage(1, 1) \o NewSecurePage(1, 3)
    /\ mgr = [m \in {"testA"} |->
                [NewPomManagerFields(1) EXCEPT !._loginPage = 1, !._securePage = 3]]
    /\ ret = [mgr |-> "testA", kind |-> "SecurePage", obj |-> 3, fresh |-> TRUE]
    /\ firstRet = [NoHistory EXCEPT !["testA"]["LoginPage"] = 1,
                                    !["testA"]["SecurePage"] = 3]
    /\ ctorRuns = [NoHistory EXCEPT !["testA"]["LoginPage"] = 1,
                                    !["testA"]["SecurePage"] = 1]
    /\ closed = {}

InitActions ==
    /\ LoginPom
    /\ NoCheckboxes
    /\ view \in Views
    /\ running = NoRunning
    /\ returned = NoReturned
    /\ events = <<>>
    /\ NoRunner
    /\ NoOverlap
    /\ NoScripts

\* the arguments the tests pass
FormLocator == PageLocator(heap[loginPage].page, SelForm)

\* a selector, the page's locator for it, and a locator for it within the form
Inputs(sel) == {sel, PageLocator(heap[loginPage].page, sel),
                SubLocator(FormLocator, sel)}

WithTimeout   == {NoOptions, [timeout |-> CallerTimeout]}
ClickOptions  == WithTimeout \cup {[force |-> TRUE],
                                   [force |-> TRUE, timeout |-> CallerTimeout]}
TextOptions   == WithTimeout \cup {[trim |-> FALSE],
                                   [trim |-> FALSE, timeout |-> CallerTimeout]}
WaitOptions   == WithTimeout \cup {[state |-> "attached"]}
TypeOptions   == WithTimeout \cup {[delay |-> CallerDelay]}
NavigateOptions == WithTimeout \cup {[waitUntil |-> "networkidle"]}
Urls          == {Url("/login"), Url("/secure")}
Credentials   == {<<>>, <<"a">>}

NextActions ==
    \/ \E u \in Urls, o \in NavigateOptions : callNavigate(u, o)
    \/ callLoginPageNavigate
    \/ \E i \in Inputs(SelSubmit), o \in ClickOptions : callClick(i, o)
    \/ \E i \in Inputs(SelSubmit) : callDblClick(i)
    \/ \E i \in Inputs(SelSubmit) : callHover(i)
    \/ \E i \in Inputs(SelUsername), t \in Credentials, o \in WithTimeout : callFill(i, t, o)
    \/ \E i \in Inputs(SelUsername), t \in Credentials, o \in TypeOptions : callType(i, t, o)
    \/ \E i \in Inputs(SelUsername) : callClear(i)
    \/ \E i \in Inputs(SelAgree), o \in WithTimeout : callCheck(i, o)
    \/ \E i \in Inputs(SelAgree), o \in WithTimeout : callUncheck(i, o)
    \/ \E i \in Inputs(SelAgree), o \in WithTimeout : callIsChecked(i, o)
    \/ \E i \in Inputs(SelFlash), o \in TextOptions : callGetText(i, o)
    \/ \E i \in Inputs(SelSubmit), o \in WithTimeout : callIsVisible(i, o)
    \/ \E i \in Inputs(SelSubmit), o \in WaitOptions : callWaitFor(i, o)
    \/ \E i \in Inputs(SelSubmit) : callCount(i)
    \/ \E u, p \in Credentials : callLogin(u, p)
    \/ callGetErrorMessage
    \/ \E e \in Texts : callAssertErrorMessage(e)
    \/ \E e \in Texts : callAssertSuccessMessage(e)
    \/ callGetMessage
    \/ \E e \in Texts : callAssertLoggedInMessage(e)
    \/ StepAwaitWait
    \/ StepAwaitPrimitive
    \/ Resume

SpecActions == InitActions /\ [][NextActions]_vars

-----------------------------------------------------------------------------
(* Specification of the configuration: the runner starts on a machine with *)
(* some number of CPUs, with CI undefined or set to some string, and loads  *)
(* playwright.config.ts.                                                    *)

InitConfig ==
    /\ InitPom
    /\ NoCheckboxes
    /\ NoActions
    /\ cpus \in 0..MaxCpus
    /\ env \in EnvValues
    /\ config = NoConfig
    /\ NoOverlap
    /\ NoScripts

NextConfig == LoadConfig

SpecConfig == InitConfig /\ [][NextConfig]_vars

-----------------------------------------------------------------------------
(* Specification of overlapping calls: the checkbox test has its page       *)
(* object and starts toggleCheckbox calls without awaiting them.            *)

InitOverlap ==
    /\ CheckboxesTest
    /\ script = <<>>

NextOverlap ==
    \/ \E f \in FlowIds, i \in Indexes : startToggleCheckbox(f, i)
    \/ \E f \in FlowIds : FlowWaitFor(f)
    \/ \E f \in FlowIds : FlowIsChecked(f)
    \/ \E f \in FlowIds : FlowWrite(f)

SpecOverlap == InitOverlap /\ [][NextOverlap]_vars

-----------------------------------------------------------------------------
(* Specifications of the scraping scripts: both scripts are run against the *)
(* same site, whose page may raise uncaught exceptions while a script is    *)
(* suspended.  In SpecScrapeTS the TypeScript script runs alone, and every  *)
(* step it awaits settles (fulfilled or rejected) in the end.               *)

InitScrape ==
    /\ InitPom
    /\ NoCheckboxes
    /\ NoActions
    /\ NoRunner
    /\ NoOverlap
    /\ site \in Sites
    /\ jsRun = Started
    /\ tsRun = Started

NextScrape == StepJS \/ StepTS \/ PageErrorJS \/ PageErrorTS

SpecScrape == InitScrape /\ [][NextScrape]_vars

NextScrapeTS == StepTS \/ PageErrorTS

SpecScrapeTS == InitScrape /\ [][NextScrapeTS]_vars /\ WF_vars(StepTS)

-----------------------------------------------------------------------------
(* Specification of the suite: every operation of PomManager, of the page   *)
(* objects and of CommonActions.  A test creates managers and asks them for *)
(* page objects; once it has what test.beforeEach of the checkboxes tests,  *)
(* or of the login tests, sets up, it goes on with the operations of the    *)
(* page objects it holds and of their wrappers, on the page that is shown.  *)

InitSuite == Init \/ InitCheckboxes \/ InitActions

\* no operation of a page object or of a wrapper has been called
Factory == NoCheckboxes /\ NoActions
\* the test holds the page object of the checkboxes tests
OnCheckboxes == Len(heap) = 2 /\ CheckboxesPom
\* the test holds the page objects of the login tests, and a page is shown
OnLogin == Len(heap) = 4 /\ view # <<>> /\ LoginPom

NextSuite ==
    \/ Factory /\ \E m \in MgrIds, p \in Pages : NewPomManager(m, p)
    \/ Factory /\ \E m \in MgrIds : getLoginPage(m)
    \/ Factory /\ \E m \in MgrIds : getSecurePage(m)
    \/ Factory /\ \E m \in MgrIds : getCheckboxesPage(m)
    \/ OnCheckboxes /\ \E i \in Indexes : callCheckCheckbox(i)
    \/ OnCheckboxes /\ \E i \in Indexes : callUncheckCheckbox(i)
    \/ OnCheckboxes /\ \E i \in Indexes : callToggleCheckbox(i)
    \/ /\ OnCheckboxes
       /\ \E i \in Indexes, e \in BOOLEAN : callValidateCheckboxState(i, e)
    \/ OnCheckboxes /\ callCheckAll
    \/ OnCheckboxes /\ callUncheckAll
    \/ OnCheckboxes /\ callGetCheckboxStates
    \/ /\ OnCheckboxes
       /\ \E e \in SeqsUpTo(BOOLEAN, MaxExpected) : callValidateAllCheckboxStates(e)
    \/ OnCheckboxes /\ callGetCheckboxCount
    \/ OnCheckboxes /\ callActionsNavigate
    \/ OnCheckboxes /\ StepCheck
    \/ OnCheckboxes /\ StepUncheck
    \/ OnCheckboxes /\ StepWaitFor
    \/ OnCheckboxes /\ StepIsChecked
    \/ OnCheckboxes /\ StepAll
    \/ OnCheckboxes /\ StepLoopIsChecked
    \/ OnCheckboxes /\ StepLoopCheck
    \/ OnCheckboxes /\ StepLoopUncheck
    \/ OnCheckboxes /\ \E i \in 1..MaxElems : StepRead(i)
    \/ OnCheckboxes /\ StepCount
    \/ OnCheckboxes /\ StepGoto
    \/ OnLogin /\ \E u \in Urls, o \in NavigateOptions : callNavigate(u, o)
    \/ OnLogin /\ callLoginPageNavigate
    \/ /\ OnLogin
       /\ \E i \in Inputs(SelSubmit), o \in ClickOptions : callClick(i, o)
    \/ OnLogin /\ \E i \in Inputs(SelSubmit) : callDblClick(i)
    \/ OnLogin /\ \E i \in Inputs(SelSubmit) : callHover(i)
    \/ /\ OnLogin
       /\ \E i \in Inputs(SelUsername), t \in Credentials, o \in WithTimeout : callFill(i, t, o)
    \/ /\ OnLogin
       /\ \E i \in Inputs(SelUsername), t \in Credentials, o \in TypeOptions : callType(i, t, o)
    \/ OnLogin /\ \E i \in Inputs(SelUsername) : callClear(i)
    \/ /\ OnLogin
       /\ \E i \in Inputs(SelAgree), o \in WithTimeout : callCheck(i, o)
    \/ /\ OnLogin
       /\ \E i \in Inputs(SelAgree), o \in WithTimeout : callUncheck(i, o)
    \/ /\ OnLogin
       /\ \E i \in Inputs(SelAgree), o \in WithTimeout : callIsChecked(i, o)
    \/ /\ OnLogin
       /\ \E i \in Inputs(SelFlash), o \in TextOptions : callGetText(i, o)
    \/ /\ OnLogin
       /\ \E i \in Inputs(SelSubmit), o \in WithTimeout : callIsVisible(i, o)
    \/ /\ OnLogin
       /\ \E i \in Inputs(SelSubmit), o \in WaitOptions : callWaitFor(i, o)
    \/ OnLogin /\ \E i \in Inputs(SelSubmit) : callCount(i)
    \/ OnLogin /\ \E u, p \in Credentials : callLogin(u, p)
    \/ OnLogin /\ callGetErrorMessage
    \/ OnLogin /\ \E e \in Texts : callAssertErrorMessage(e)
    \/ OnLogin /\ \E e \in Texts : callAssertSuccessMessage(e)
    \/ OnLogin /\ callGetMessage
    \/ OnLogin /\ \E e \in Texts : callAssertLoggedInMessage(e)
    \/ OnLogin /\ StepAwaitWait
    \/ OnLogin /\ StepAwaitPrimitive
    \/ OnLogin /\ Resume

SpecSuite == InitSuite /\ [][NextSuite]_vars

-----------------------------------------------------------------------------
(* Properties of the factory *)

Slot(m, kind) ==
    CASE kind = "LoginPage"      -> mgr[m]._loginPage
      [] kind = "SecurePage"     -> mgr[m]._securePage
      [] kind = "CheckboxesPage" -> mgr[m]._checkboxesPage

\* the page objects of a kind in the heap
ObjectsOfKind(kind) == {o \in 1..Len(heap) : heap[o].kind = kind}

\* C1: every call of a getter on a PomManager returns the identical object
\* (same identity) that the first call of that getter on it returned, and
\* that object is the one the manager's slot holds.
C1_SameInstance ==
    ret.obj # Null =>
        /\ ret.obj = firstRet[ret.mgr][ret.kind]
        /\ ret.obj = Slot(ret.mgr, ret.kind)
        /\ heap[ret.obj].kind = ret.kind

\* a getter call was served from the cache
C1_Witness ==
    /\ ret.obj # Null
    /\ ~ret.fresh
    /\ Cardinality(DOMAIN mgr) = 2

\* C2: the factory is lazy and constructs at most one instance per kind:
\* a slot is empty until its own getter is first called (so after
\* construction all slots are empty and a getter never fills another kind's
\* slot), each constructor runs at most once per manager, and the heap holds
\* exactly the page objects those runs made.
C2_LazyAtMostOnce ==
    /\ \A m \in MgrIds, k \in Kinds :
          /\ ctorRuns[m][k] <= 1
          /\ (firstRet[m][k] = Null) <=> (ctorRuns[m][k] = 0)
          /\ m \in DOMAIN mgr => ((Slot(m, k) = Null) <=> (firstRet[m][k] = Null))
          /\ m \notin DOMAIN mgr => firstRet[m][k] = Null
    /\ \A k \in Kinds :
          Cardinality(ObjectsOfKind(k)) =
              Cardinality({m \in MgrIds : ctorRuns[m][k] = 1})

\* one kind was requested twice and another kind never, on the same manager
C2_Witness ==
    \E m \in DOMAIN mgr :
        /\ ret.mgr = m /\ ~ret.fresh /\ ret.kind = "SecurePage"
        /\ ctorRuns[m]["SecurePage"] = 1
        /\ mgr[m]._loginPage = Null
        /\ mgr[m]._checkboxesPage # Null

\* C3: a slot that holds a page object keeps that object in every later
\* step: no operation clears or replaces it, and no manager disappears.
C3_SlotsStable ==
    [][\A m \in DOMAIN mgr :
          /\ m \in DOMAIN mgr'
          /\ \A k \in Kinds : Slot(m, k) # Null => Slot(m, k)' = Slot(m, k)]_vars

\* a slot was filled and a later getter call allocated a further object
C3_Witness ==
    \E m \in DOMAIN mgr :
        /\ mgr[m]._checkboxesPage # Null
        /\ ret.mgr = m
        /\ ret.kind = "CheckboxesPage" /\ ~ret.fresh
        /\ Len(heap) > mgr[m]._checkboxesPage + 1

\* C4: every page object a manager holds, and the CommonActions that page
\* object owns, refer to the page handle given to the manager's constructor.
C4_SamePageHandle ==
    \A m \in DOMAIN mgr : \A k \in Kinds :
        Slot(m, k) # Null =>
            /\ heap[Slot(m, k)].page = mgr[m].page
            /\ heap[Slot(m, k)].actions \in 1..Len(heap)
            /\ heap[heap[Slot(m, k)].actions].kind = "CommonActions"
            /\ heap[heap[Slot(m, k)].actions].page = mgr[m].page

\* two managers on different pages, all six page objects constructed
C4_Witness ==
    /\ DOMAIN mgr = MgrIds
    /\ mgr["testA"].page # mgr["testB"].page
    /\ \A m \in MgrIds, k \in Kinds : Slot(m, k) # Null

\* the objects reachable from a manager: its page objects and their wrappers
Owned(m) ==
    {Slot(m, k) : k \in Kinds} \cup
    {heap[Slot(m, k)].actions : k \in {j \in Kinds : Slot(m, j) # Null}}

\* C5: two managers never share a page object (nor a wrapper), and a getter
\* call on one manager leaves the fields of every other manager unchanged.
C5_ManagersIndependent ==
    [][/\ \A m1, m2 \in DOMAIN mgr' :
            m1 # m2 => (Owned(m1)' \cap Owned(m2)') \subseteq {Null}
       /\ \A m \in DOMAIN mgr : m # ret'.mgr \/ ret' = ret => mgr'[m] = mgr[m]]_vars

\* both managers hold a page object of the same kind, on the same page
C5_Witness ==
    /\ DOMAIN mgr = MgrIds
    /\ mgr["testA"].page = mgr["testB"].page
    /\ mgr["testA"]._loginPage # Null
    /\ mgr["testB"]._loginPage # Null
    /\ ret.mgr = "testB" /\ ret.kind = "LoginPage"

-----------------------------------------------------------------------------
(* Properties of CheckboxesPage *)

\* the states of the checkboxes of #checkboxes on page d, in DOM order
ContainerStates(d) ==
    [k \in 1..Len(Resolve(cbCheckboxes, d)) |-> d[Resolve(cbCheckboxes, d)[k]].checked]

\* the element the methods taking an index designate on page d
IndexTarget(index, d) ==
    Target(PageLocator(heap[cbActions].page, SelNthOfType(index)), d)

AllEqual(states, value) == \A i \in 1..Len(states) : states[i] = value

Mixed(states) == \E i, j \in 1..Len(states) : states[i] /\ ~states[j]

\* C6: for every starting state, checkAll() returns normally, leaves every
\* checkbox of the page's container checked, and a getCheckboxStates() that
\* follows it returns one value per checkbox, every value true.
C6_CheckAllThenStates ==
    /\ done.op = "checkAll" =>
          done.status = "ok" /\ AllEqual(ContainerStates(dom), TRUE)
    /\ (done.op = "getCheckboxStates" /\ prev.op = "checkAll") =>
          /\ done.status = "ok"
          /\ Len(done.states) = Len(ContainerStates(prev.pre))
          /\ AllEqual(done.states, TRUE)

\* getCheckboxStates() returned after a checkAll() that started from a page
\* with checked and unchecked checkboxes
C6_Witness ==
    /\ done.op = "getCheckboxStates" /\ done.status = "ok"
    /\ prev.op = "checkAll" /\ prev.status = "ok"
    /\ Mixed(ContainerStates(prev.pre))
    /\ Len(done.states) >= 2

\* C7: for every starting state, uncheckAll() returns normally, leaves every
\* checkbox of the page's container unchecked, and a getCheckboxStates()
\* that follows it returns one value per checkbox, every value false.
C7_UncheckAllThenStates ==
    /\ done.op = "uncheckAll" =>
          done.status = "ok" /\ AllEqual(ContainerStates(dom), FALSE)
    /\ (done.op = "getCheckboxStates" /\ prev.op = "uncheckAll") =>
          /\ done.status = "ok"
          /\ Len(done.states) = Len(ContainerStates(prev.pre))
          /\ AllEqual(done.states, FALSE)

\* getCheckboxStates() returned after an uncheckAll() that started from the
\* all-checked page a checkAll() leaves
C7_Witness ==
    /\ done.op = "getCheckboxStates" /\ done.status = "ok"
    /\ prev.op = "uncheckAll" /\ prev.status = "ok"
    /\ Len(done.states) >= 2
    /\ AllEqual(ContainerStates(prev.pre), TRUE)

\* C8: two toggleCheckbox(i) calls in succession leave the page, and so
\* checkbox i, in the state it had before the first one.
C8_DoubleToggle ==
    (done.op = "toggleCheckbox" /\ prev.op = "toggleCheckbox"
        /\ prev.index = done.index) =>
            /\ dom = prev.pre
            /\ done.status = prev.status

\* the second of two toggles of a checked checkbox returned
C8_Witness ==
    /\ done.op = "toggleCheckbox" /\ done.status = "ok"
    /\ prev.op = "toggleCheckbox" /\ prev.status = "ok"
    /\ prev.index = done.index
    /\ dom # done.pre
    /\ dom[IndexTarget(done.index, dom).el].checked

\* a page showing only checkboxes, all of them children of #checkboxes
OnlyContainerCheckboxes(d) ==
    \A i \in 1..Len(d) : d[i].type = "checkbox" /\ d[i].parent = "checkboxes"

\* C9: a toggleCheckbox(i) that returns leaves the checkbox designated by i
\* in the negation of its state before the call; a validateCheckboxState(i,
\* e) right after it passes when e is that negation; and on a page showing
\* only the container's checkboxes the toggle returns for every i up to
\* their number.
C9_ToggleNegates ==
    /\ (done.op = "toggleCheckbox" /\ done.status = "ok") =>
          LET t == IndexTarget(done.index, done.pre)
          IN /\ t.status = "ok"
             /\ dom[t.el].checked = ~done.pre[t.el].checked
    /\ (done.op = "validateCheckboxState" /\ prev.op = "toggleCheckbox"
          /\ prev.status = "ok" /\ prev.index = done.index) =>
          LET t == IndexTarget(prev.index, prev.pre)
          IN done.expectedState = ~prev.pre[t.el].checked => done.status = "ok"
    /\ (done.op = "toggleCheckbox" /\ OnlyContainerCheckboxes(done.pre)
          /\ done.index <= Len(done.pre)) => done.status = "ok"

\* validateCheckboxState(i, TRUE) passed right after toggleCheckbox(i)
\* turned an unchecked checkbox on
C9_Witness ==
    /\ done.op = "validateCheckboxState" /\ done.status = "ok"
    /\ done.expectedState
    /\ prev.op = "toggleCheckbox" /\ prev.status = "ok"
    /\ prev.index = done.index
    /\ ~prev.pre[IndexTarget(prev.index, prev.pre).el].checked

\* C10: validateAllCheckboxStates(expected) passes exactly when expected
\* equals, in length and element for element, the array getCheckboxStates()
\* returns at that moment; otherwise it fails with an assertion error.
C10_ValidateAllIff ==
    /\ done.op = "getCheckboxStates" =>
          done.status = "ok" /\ done.states = ContainerStates(done.pre)
    /\ done.op = "validateAllCheckboxStates" =>
          /\ done.status \in {"ok", "AssertionError"}
          /\ done.status = "ok" <=>
                /\ Len(done.expectedStates) = Len(ContainerStates(done.pre))
                /\ \A i \in 1..Len(done.expectedStates) :
                      done.expectedStates[i] = ContainerStates(done.pre)[i]

\* validateAllCheckboxStates passed on a page with a checked and an
\* unchecked checkbox
C10_Witness ==
    /\ done.op = "validateAllCheckboxStates" /\ done.status = "ok"
    /\ Len(done.expectedStates) = 2
    /\ done.expectedStates[1] # done.expectedStates[2]

-----------------------------------------------------------------------------
(* Properties of the scripted checkbox test *)

\* the page of the checkbox tests: two checkboxes, both in the container,
\* and no other input
TwoCheckboxes(d) == Len(d) = 2 /\ OnlyContainerCheckboxes(d)

\* C11: on a page with two checkboxes, whatever their states at the start,
\* once checkCheckbox(1) and then uncheckCheckbox(2) have returned the
\* checkboxes are [checked, unchecked]; getCheckboxStates() called next
\* returns [true, false] and validateAllCheckboxStates([true, false])
\* called next passes.
C11_CheckThenUncheck ==
    (TwoCheckboxes(dom) /\ Idle) =>
        /\ (Len(script) = 2 /\ done.op = "uncheckCheckbox") =>
              /\ prev.op = "checkCheckbox" /\ prev.status = "ok"
              /\ done.status = "ok"
              /\ ContainerStates(dom) = <<TRUE, FALSE>>
        /\ (script = <<EndOfScript>> /\ done.op = "getCheckboxStates") =>
              /\ done.status = "ok"
              /\ done.states = <<TRUE, FALSE>>
        /\ (script = <<EndOfScript>> /\ done.op = "validateAllCheckboxStates") =>
              done.status = "ok"

\* the whole script has run on a page whose second checkbox was checked
C11_Witness ==
    /\ TwoCheckboxes(dom) /\ Idle
    /\ script = <<EndOfScript>>
    /\ done.op = "validateAllCheckboxStates" /\ done.status = "ok"
    /\ prev.op = "uncheckCheckbox"
    /\ ContainerStates(prev.pre) = <<TRUE, TRUE>>

-----------------------------------------------------------------------------
(* Index and position *)

\* the element whose state getCheckboxStates() reports at position i
PositionElem(i, d) == Resolve(cbCheckboxes, d)[i]

\* C12: for every index i from 1 to the number of checkboxes and every page
\* structure, checkCheckbox(i), uncheckCheckbox(i), toggleCheckbox(i) and
\* validateCheckboxState(i, e) act on exactly the checkbox whose state
\* getCheckboxStates() reports at position i: the first three return and
\* change that checkbox and no other, the last passes exactly when that
\* checkbox is in state e.
C12_IndexIsPosition ==
    (/\ Idle
     /\ done.op \in {"checkCheckbox", "uncheckCheckbox", "toggleCheckbox",
                     "validateCheckboxState"}
     /\ done.index <= Len(ContainerStates(done.pre))) =>
        LET el == PositionElem(done.index, done.pre)
            was == done.pre[el].checked
        IN CASE done.op = "checkCheckbox" ->
                  done.status = "ok" /\ dom = SetChecked(done.pre, el, TRUE)
             [] done.op = "uncheckCheckbox" ->
                  done.status = "ok" /\ dom = SetChecked(done.pre, el, FALSE)
             [] done.op = "toggleCheckbox" ->
                  done.status = "ok" /\ dom = SetChecked(done.pre, el, ~was)
             [] done.op = "validateCheckboxState" ->
                  (done.status = "ok") <=> (was = done.expectedState)

-----------------------------------------------------------------------------
(* Properties of the wrapper and of the login / secure page objects *)

\* the method in progress or, once it has settled, the method that returned
CurrentMethod == IF running.m.op # "none" THEN running.m ELSE returned.m

\* the wrapper calls of the current method: their beginnings and ends
RECURSIVE WrapperEventsOf(_)
WrapperEventsOf(evs) ==
    IF evs = <<>> THEN <<>>
    ELSE IF Head(evs).kind \in {"begin", "end"}
         THEN <<Head(evs)>> \o WrapperEventsOf(Tail(evs))
         ELSE WrapperEventsOf(Tail(evs))

WrapperEvents == WrapperEventsOf(events)

\* the three wrapper calls login(username, password) is to make
LoginTrace(username, password) ==
    LET user   == heap[loginPage].locators.usernameInput
        pass   == heap[loginPage].locators.passwordInput
        button == heap[loginPage].locators.loginButton
    IN << Ev("begin", "fill", user, NoOptions, username, "none"),
          Ev("end", "fill", user, NoOptions, username, "ok"),
          Ev("begin", "fill", pass, NoOptions, password, "none"),
          Ev("end", "fill", pass, NoOptions, password, "ok"),
          Ev("begin", "click", button, NoOptions, <<>>, "none"),
          Ev("end", "click", button, NoOptions, <<>>, "ok") >>

\* C13: the wrapper calls of login(username, password) are, in this order,
\* fill of the username field, fill of the password field, click of the
\* submit button: at every moment the calls begun and ended so far are an
\* initial part of that sequence (so each begins after the one before it
\* has ended, and at most one is in progress), only the last of them can have
\* failed, and a login that returns normally has made exactly the three.
C13_LoginThreeCallsInOrder ==
    CurrentMethod.op = "login" =>
        LET w == WrapperEvents
            expected == LoginTrace(CurrentMethod.text, CurrentMethod.text2)
        IN /\ Len(w) <= Len(expected)
           /\ \A i \in 1..Len(w) :
                 \/ w[i] = expected[i]
                 \/ /\ i = Len(w) /\ w[i].kind = "end" /\ w[i].status # "ok"
                    /\ w[i] = [expected[i] EXCEPT !.status = w[i].status]
           /\ (running.m.op = "login") <=> (Len(w) % 2 = 1)
           /\ (returned.m.op = "login" /\ returned.status = "ok") => w = expected

\* a login with both credentials given has returned normally
C13_Witness ==
    /\ returned.m.op = "login" /\ returned.status = "ok"
    /\ returned.m.text = <<"a">> /\ returned.m.text2 = <<"a">>
    /\ Len(events) = 14

\* the locator a wrapper is to act on for the input it is given
Resolved(m, input) ==
    IF IsString(input) THEN PageLocator(heap[ActionsOf(m.op)].page, input)
    ELSE input

\* C14: a click(input, options) call first invokes waitFor on the resolved
\* locator with state visible and timeout T; only when that wait has
\* succeeded does it invoke the click primitive, on the same locator, with
\* the same T and the force flag (T is options.timeout or 10000, force is
\* options.force or false); when the wait fails the click primitive is not
\* invoked (no element is clicked), and the call and the method that made
\* it end with the wait's error.
C14_ClickWaitsThenClicks ==
    \A k \in 1..Len(events) :
      (events[k].kind = "begin" /\ events[k].name = "click") =>
        LET T == Opt(events[k].args, "timeout", 10000)
            F == Opt(events[k].args, "force", FALSE)
            loc == Resolved(CurrentMethod, events[k].target)
            n == Len(events)
        IN /\ k + 1 <= n
           /\ events[k + 1] = Ev("invoke", "waitFor", loc,
                                 [state |-> "visible", timeout |-> T], <<>>, "none")
           /\ k + 2 <= n =>
                /\ events[k + 2].kind = "settle" /\ events[k + 2].name = "waitFor"
                /\ events[k + 2].status = "ok" =>
                     events[k + 3] = Ev("invoke", "click", loc,
                                        [force |-> F, timeout |-> T], <<>>, "none")
                /\ events[k + 2].status # "ok" =>
                     /\ n = k + 3
                     /\ events[n].kind = "end" /\ events[n].name = "click"
                     /\ events[n].status = events[k + 2].status
                     /\ returned.status = events[k + 2].status
                     /\ \A el \in ViewSelectors :
                           view[el].clicked = returned.pre[el].clicked

\* a forced click with the caller's timeout went through on a disabled button
C14_Witness ==
    /\ returned.m.op = "click" /\ returned.status = "ok"
    /\ returned.m.options = [force |-> TRUE, timeout |-> CallerTimeout]
    /\ ~returned.pre[SelSubmit].enabled
    /\ view[SelSubmit].clicked

\* C15: no operation catches, wraps or replaces an error.  When a primitive
\* settles with an error, the wrapper call in progress ends with that error,
\* the method ends with that error and nothing is invoked afterwards; and
\* an error a method ends with, other than a failed expectation of its own,
\* is the error of the primitive it invoked last.
C15_ErrorsPropagate ==
    LET n == Len(events)
    IN /\ \A k \in 1..n :
            (events[k].kind = "settle" /\ events[k].status # "ok") =>
               /\ n = k + 1
               /\ events[n].kind = "end" /\ events[n].status = events[k].status
               /\ running = NoRunning
               /\ returned.status = events[k].status
       /\ (returned.m.op # "none" /\ returned.status \notin {"ok", "AssertionError"}) =>
               /\ n >= 2
               /\ events[n - 1].kind = "settle"
               /\ events[n - 1].status = returned.status

\* login ended with the error of the username fill: after the fill was
\* invoked and failed nothing else was invoked
C15_Witness ==
    /\ returned.m.op = "login" /\ returned.status = "TimeoutError"
    /\ returned.pre[SelUsername].state = "absent"
    /\ Len(events) = 4
    /\ events[2].kind = "invoke" /\ events[2].name = "fill"
    /\ view = returned.pre

\* C16: getText returns undefined, and does not throw, when no element
\* matches the locator.
C16_GetTextUndefinedWhenNoMatch ==
    (/\ returned.m.op = "getText"
     /\ ViewTarget(Resolved(returned.m, returned.m.input), returned.pre).status # "ok") =>
        /\ returned.status = "ok"
        /\ returned.value = Undefined

\* C17: getMessage returns the text of the flash message; when the flash
\* element is not found it returns the empty string: it does not fail then,
\* and it never returns undefined.
C17_GetMessageEmptyWhenNoFlash ==
    returned.m.op = "getMessage" =>
        /\ returned.status = "ok" => returned.value # Undefined
        /\ returned.pre[SelFlash].state = "absent" =>
              /\ returned.status = "ok"
              /\ returned.value = <<>>

\* C18: check and uncheck both take the caller's timeout, 10000 ms when the
\* caller gives none, and hand it to the primitive they invoke.
C18_CheckUncheckPassTimeout ==
    \A k \in 1..Len(events) :
      (events[k].kind = "begin" /\ events[k].name \in {"check", "uncheck"}) =>
        /\ events[k + 1].kind = "invoke" /\ events[k + 1].name = events[k].name
        /\ "timeout" \in DOMAIN events[k + 1].args
        /\ events[k + 1].args.timeout = Opt(events[k].args, "timeout", 10000)

\* C19: every element operation of the wrapper resolves its input in the
\* same way: a selector string becomes a locator on the wrapper's page, a
\* locator is used as it is.  Resolving never fails and does nothing on the
\* page: the first thing that happens in a call is the invocation of the
\* operation's own wait or primitive, on that locator, with the page as it
\* was, and every later invocation of the call is on that locator too.
C19_UniformResolution ==
    \A k \in 1..Len(events) :
      (events[k].kind = "begin" /\ events[k].name \in ElementOps) =>
        LET loc == Resolved(CurrentMethod, events[k].target)
            st == StepsOf(events[k].name, events[k].args)
        IN /\ k + 1 <= Len(events)
           /\ events[k + 1].kind = "invoke"
           /\ events[k + 1].name = IF st.wait = "none" THEN st.prim ELSE "waitFor"
           /\ events[k + 1].target = loc
           /\ (k = 1 /\ Len(events) = 2) => view = running.pre
           /\ \A j \in (k + 1)..Len(events) :
                 (events[j].kind = "invoke"
                  /\ \A i \in (k + 1)..j : events[i].kind # "begin") =>
                     events[j].target = loc

\* a fill given a locator scoped to the login form has filled the field
C19_Witness ==
    /\ returned.m.op = "fill" /\ returned.status = "ok"
    /\ returned.m.input = SubLocator(FormLocator, SelUsername)
    /\ returned.m.text = <<"a">>
    /\ view[SelUsername].text = <<"a">>

\* what an assertion on the flash message of page v observes for e
FlashAssertion(v, e) ==
    IF v[SelFlash].state # "visible" THEN "TimeoutError"
    ELSE ToContain(OptionalTrim(v[SelFlash].text), e)

\* C20: assertErrorMessage(e) and assertSuccessMessage(e) cannot be told
\* apart: on every page and for every e each of them reads the flash element
\* and nothing else, leaves the page as it was, and passes, fails or times
\* out exactly as the other does, namely as FlashAssertion says.
C20_AssertsEquivalent ==
    returned.m.op \in {"assertErrorMessage", "assertSuccessMessage"} =>
        /\ returned.status = FlashAssertion(returned.pre, returned.m.expected)
        /\ view = returned.pre
        /\ \A k \in 1..Len(events) :
              events[k].kind = "invoke" =>
                 events[k].target = heap[loginPage].locators.errorMessage

\* assertSuccessMessage has passed on a flash text that has to be trimmed
C20_Witness ==
    /\ returned.m.op = "assertSuccessMessage" /\ returned.status = "ok"
    /\ returned.m.expected = <<"a">>
    /\ returned.pre[SelFlash].text = <<" ", "a">>

-----------------------------------------------------------------------------
(* Properties of the configuration *)

Loaded == config # NoConfig

\* C21 as stated: outside CI (the variable not set) the configured worker
\* count is min(floor(0.75 * CPU count), 20), and whenever the CI variable is
\* set, whatever its value, the worker count is 2.
C21_WorkersSetMeansTwo ==
    Loaded =>
        /\ env = Undefined => config.workers = Min((3 * cpus) \div 4, 20)
        /\ env # Undefined => config.workers = 2

\* C21 amended: when CI is set to a non-empty string the worker count is 2
\* whatever the CPU count; when CI is not set or is the empty string it is
\* min(floor(0.75 * CPU count), 20), for every CPU count.
C21_Workers ==
    Loaded =>
        /\ env \in {Undefined, <<>>} => config.workers = Min((3 * cpus) \div 4, 20)
        /\ env \notin {Undefined, <<>>} => config.workers = 2

\* the configuration loaded with CI set to the empty string on a machine
\* large enough for the cap to apply
C21_Witness ==
    /\ Loaded
    /\ env = <<>>
    /\ cpus >= 28
    /\ config.workers = 20

-----------------------------------------------------------------------------
(* Further properties of the checkboxes page *)

\* the method in progress or, when none is, the last one completed, and the
\* page it started from
RunOp  == IF task.op # "none" THEN task.op ELSE done.op
RunPre == IF task.op # "none" THEN task.pre ELSE done.pre

\* C22: during and after a run of checkAll every primitive invocation is a
\* check of a checkbox that was unchecked when the run examined it (it was
\* unchecked when the run started and still is when check is invoked), and
\* no checkbox is checked twice; likewise uncheckAll only invokes uncheck,
\* on checkboxes that were checked, each at most once.
C22_NoRedundantCalls ==
    RunOp \in {"checkAll", "uncheckAll"} =>
        \A i \in 1..Len(calls) :
            /\ calls[i].prim = (IF RunOp = "checkAll" THEN "check" ELSE "uncheck")
            /\ calls[i].was = (RunOp = "uncheckAll")
            /\ RunPre[calls[i].el].checked = (RunOp = "uncheckAll")
            /\ \A j \in 1..Len(calls) : calls[j].el = calls[i].el => j = i

\* checkAll returned on a page that had a checked and an unchecked checkbox:
\* it invoked check on the one and not on the other
C22_Witness ==
    /\ done.op = "checkAll" /\ done.status = "ok"
    /\ Mixed(ContainerStates(done.pre))
    /\ Len(calls) >= 1
    /\ Len(calls) < Len(ContainerStates(done.pre))

\* the methods that can change the page
Mutators == {"checkCheckbox", "uncheckCheckbox", "toggleCheckbox",
             "checkAll", "uncheckAll"}

\* C23: whenever getCheckboxStates() has returned, in whatever order its
\* reads completed, the array it returned holds one boolean per checkbox of
\* the container, in DOM order, each the state the checkbox has on the page
\* now: after a call that changed the page it is the changed state, not
\* the one an earlier call saw.
C23_StatesInOrderAndFresh ==
    (done.op = "getCheckboxStates" /\ done.status = "ok") =>
        /\ Len(done.states) = Len(Resolve(cbCheckboxes, dom))
        /\ \A k \in 1..Len(done.states) :
               done.states[k] = dom[Resolve(cbCheckboxes, dom)[k]].checked
        /\ (prev.op \in Mutators /\ prev.status = "ok") =>
               done.states = ContainerStates(dom)

\* getCheckboxStates() returned, on a page with checked and unchecked
\* checkboxes, after a call that changed the page
C23_Witness ==
    /\ done.op = "getCheckboxStates" /\ done.status = "ok"
    /\ Mixed(done.states)
    /\ prev.op \in Mutators /\ prev.status = "ok"
    /\ ContainerStates(prev.pre) # done.states

\* C24: whatever the schedule of the toggleCheckbox calls a test has started,
\* overlapping ones included, each write of a toggleCheckbox negates the
\* state the checkbox has at the moment of the write: it invokes check on a
\* checkbox that is then unchecked, uncheck on one that is then checked.
C24_WriteNegatesStateAtWrite ==
    written.prim # "none" => written.was = (written.prim = "uncheck")

\* C27: getCheckboxCount() returns at once, without waiting for any
\* element, the number of checkboxes of the page, and in every page state
\* that number is the length of the array getCheckboxStates() returns there
\* (one entry per checkbox of the container, C23).
C27_CountIsNumberOfStates ==
    done.op = "getCheckboxCount" =>
        /\ done.status = "ok"
        /\ done.count = Cardinality({i \in 1..Len(dom) : dom[i].type = "checkbox"})
        /\ done.count = Len(ContainerStates(dom))

\* C28: checkCheckbox(i), uncheckCheckbox(i) and toggleCheckbox(i) change
\* the state of no checkbox other than the one i designates: when the call
\* has ended, returned or thrown, every other element of the page is as it
\* was before the call (and when i designates no single element, every
\* element is).
C28_OthersUnchanged ==
    done.op \in {"checkCheckbox", "uncheckCheckbox", "toggleCheckbox"} =>
        LET t == IndexTarget(done.index, done.pre)
        IN /\ Len(dom) = Len(done.pre)
           /\ \A j \in 1..Len(dom) :
                  (t.status # "ok" \/ j # t.el) => dom[j] = done.pre[j]

\* checkCheckbox(i) has checked its checkbox and the page has another
\* checkbox, which is still unchecked
C28_Witness ==
    /\ done.op = "checkCheckbox" /\ done.status = "ok"
    /\ dom # done.pre
    /\ \E j \in 1..Len(dom) :
          /\ j # IndexTarget(done.index, done.pre).el
          /\ dom[j].type = "checkbox"
          /\ ~dom[j].checked

-----------------------------------------------------------------------------
(* Properties of the scraping scripts *)

\* C25: in the TypeScript script, once chromium.launch has given a browser,
\* browser.close() is invoked in the end on every path: after the rows were
\* printed, after the early returns for a missing table or missing
\* headers, and after any step that throws.
C25_CloseEventually == tsRun.browser ~> (tsRun.closes >= 1)

\* the TypeScript script has ended after a step past the launch threw, and
\* the browser was closed once
C25_Witness ==
    /\ tsRun.pc = "done"
    /\ tsRun.browser
    /\ site.throwsAt \in {"newPage", "goto", "title", "table", "headers", "rows"}
    /\ tsRun.closes = 1

\* C26: whatever the site answers, once both scripts have ended, the page
\* having raised its exceptions during the same steps of the one and of the
\* other, they have printed the same lines in the same order, have invoked
\* browser.close() equally often, and have ended the same way (returned, or
\* an error escaped).
C26_SameFunctionality ==
    (jsRun.pc = "done" /\ tsRun.pc = "done" /\ jsRun.errors = tsRun.errors) =>
        /\ jsRun.out = tsRun.out
        /\ jsRun.closes = tsRun.closes
        /\ jsRun.end = tsRun.end

\* C29: on every machine with at least one CPU core the worker count that
\* calculateWorkers computes (the configured count when CI does not replace
\* it) is at least 1 and at most 20.
C29_WorkersBetween1And20 ==
    (Loaded /\ cpus >= 1 /\ ~ToBoolean(env)) =>
        /\ config.workers = calculateWorkers(cpus)
        /\ config.workers >= 1
        /\ config.workers <= 20

-----------------------------------------------------------------------------
(* Frame of the objects *)

\* every page object a manager holds is on the manager's page, and so are
\* its wrapper and every locator it holds
PageObjectsIntact ==
    \A m \in DOMAIN mgr, k \in Kinds :
        LET o == Slot(m, k)
        IN o # Null =>
             /\ heap[o].kind = k
             /\ heap[o].page = mgr[m].page
             /\ heap[heap[o].actions].page = mgr[m].page
             /\ \A f \in DOMAIN heap[o].locators :
                    \/ IsString(heap[o].locators[f])
                    \/ heap[o].locators[f].page = mgr[m].page

\* C30: no operation of PomManager, of a page object or of CommonActions
\* closes a page handle, replaces the page handle of a manager, or changes
\* an object once it is constructed: every step leaves each existing page
\* object and wrapper with the page handle and the locators it has, and so
\* every page object still refers to the page and the locators it was
\* constructed with.
C30_NothingReassigned ==
    [][ /\ closed' = {}
        /\ \A o \in 1..Len(heap) : o <= Len(heap') /\ heap'[o] = heap[o]
        /\ \A m \in DOMAIN mgr : m \in DOMAIN mgr' /\ mgr'[m].page = mgr[m].page
        /\ PageObjectsIntact' ]_vars

\* the CheckboxesPage a getter constructed has navigated through its wrapper
\* and then run checkAll, which checked a checkbox through the wrapper
C30_Witness ==
    /\ "testA" \in DOMAIN mgr
    /\ ret.kind = "CheckboxesPage" /\ ret.fresh /\ ret.obj = cbPage
    /\ prev.op = "navigate" /\ prev.status = "ok"
    /\ done.op = "checkAll" /\ done.status = "ok"
    /\ calls # <<>>
    /\ heap[cbPage].page \notin closed

====
